---------------------------- MODULE Spec2Model ----------------------------
(***************************************************************************)
(* The time-fixed causal estimators exercised by the notebooks:            *)
(*   TimeFixedGFormula (parametric g-formula), AIPTW and TMLE.             *)
(* One estimator instance is built on a dataset; outcome_model and         *)
(* exposure_model store fitted regression models, fit() computes the       *)
(* estimates, and the caller reads the result attributes.                  *)
(*                                                                         *)
(* Numbers are exact rationals <<n, d>> with d > 0 in lowest terms.        *)
(* Regression coefficients are integers in units of ln 2, so that the      *)
(* inverse logit link is computed exactly on the odds scale:               *)
(*   expit(eta * ln 2) = 2^eta / (1 + 2^eta).                              *)
(***************************************************************************)
EXTENDS Integers, Sequences, FiniteSets

VARIABLES
    kind,              \* estimator class: "gformula", "aiptw" or "tmle"
    df,                \* the dataset the estimator was constructed on
    outcome_type,      \* outcome_type given to the constructor
    q_model,           \* fitted outcome model, NoModel until outcome_model
    g_model,           \* fitted exposure model, NoModel until exposure_model
    marginal_outcome,  \* g-formula result attribute
    risk_difference,   \* AIPTW / TMLE result attribute
    risk_ratio,        \* AIPTW / TMLE result attribute
    odds_ratio,        \* TMLE result attribute
    epsilon,           \* TMLE fluctuation parameter of the last fit
    confidence_interval, \* AIPTW / TMLE: the intervals of the risk difference
                       \* and the risk ratio
    printed,           \* what the last call of a regression or of fit
                       \* printed: "regression" (the results of the
                       \* regression) or ""
    err,               \* outcome of the last call: "ok" or the error raised
    last,              \* the last call made on the estimator, and whether it
                       \* repeats a successful fit
    r_read,            \* what the caller's last read of the results returned
    progress,          \* inside a running TMLE fit(): the steps done and
                       \* their intermediate results
    shelf,             \* the caller's other estimator instance (a second
                       \* bootstrap repetition), held while this one is called
    notebook           \* the g-formula notebook run as a script: the cell
                       \* reached and the results bound to its names

vars == <<kind, df, outcome_type, q_model, g_model, marginal_outcome, risk_difference,
          risk_ratio, odds_ratio, epsilon, confidence_interval, printed,
          err, last, r_read, progress, shelf, notebook>>

\* An absent result attribute (a present one is a rational pair).
None == <<>>

\* No fitted model stored.
NoModel == [family |-> "none", terms |-> {}, b0 |-> 0, bA |-> 0, bL |-> 0]

\* Largest number of records in a dataset.
MaxN == 2

---------------------------------------------------------------------------
(* Exact rational arithmetic *)

Abs(x) == IF x < 0 THEN -x ELSE x

RECURSIVE GCD(_, _)
GCD(a, b) == IF b = 0 THEN a ELSE GCD(b, a % b)

\* n/d in lowest terms with a positive denominator (d # 0).
Norm(n, d) ==
    LET g == GCD(Abs(n), Abs(d))
        s == IF d < 0 THEN -1 ELSE 1
    IN  <<(s * n) \div g, (s * d) \div g>>

Zero == <<0, 1>>
One == <<1, 1>>
RInt(k) == <<k, 1>>

\* Sums and products are taken over the least common denominator, to stay
\* within the integers of the model checker.
RAdd(x, y) ==
    LET g == GCD(x[2], y[2])
    IN  Norm(x[1] * (y[2] \div g) + y[1] * (x[2] \div g), (x[2] \div g) * y[2])

RNeg(x) == <<-x[1], x[2]>>

RSub(x, y) == RAdd(x, RNeg(y))

RMul(x, y) ==
    LET g1 == GCD(Abs(x[1]), y[2])
        g2 == GCD(Abs(y[1]), x[2])
    IN  Norm((x[1] \div g1) * (y[1] \div g2), (x[2] \div g2) * (y[2] \div g1))

\* Floating-point division: x/0 is inf, -inf or nan (<<1,0>>, <<-1,0>>, <<0,0>>),
\* never an exception.
RDiv(x, y) ==
    IF y[1] = 0
    THEN <<(IF x[1] > 0 THEN 1 ELSE IF x[1] < 0 THEN -1 ELSE 0), 0>>
    ELSE Norm(x[1] * y[2], x[2] * y[1])

RLeq(x, y) == x[1] * y[2] <= y[1] * x[2]
RLess(x, y) == x[1] * y[2] < y[1] * x[2]

\* A column of n values as an array: every entry is computed once.
RECURSIVE Column(_, _)
Column(f, n) == IF n = 0 THEN <<>> ELSE Append(Column(f, n - 1), f[n])

\* Sum of the first n entries of a column.
RECURSIVE RSum(_, _)
RSum(col, n) == IF n = 0 THEN Zero ELSE RAdd(col[n], RSum(col, n - 1))

\* numpy.mean of a column of n > 0 entries.
Mean(col, n) == RDiv(RSum(col, n), RInt(n))

RECURSIVE IPow2(_)
IPow2(k) == IF k = 0 THEN 1 ELSE 2 * IPow2(k - 1)

\* 2^k as a rational, k any integer.
Pow2(k) == IF k >= 0 THEN <<IPow2(k), 1>> ELSE <<1, IPow2(-k)>>

\* expit on the odds scale: odds / (1 + odds).
OddsToProb(o) == Norm(o[1], o[1] + o[2])

\* exp(logit(p)): p / (1 - p), for 0 < p < 1.
Odds(p) == Norm(p[1], p[2] - p[1])

---------------------------------------------------------------------------
(* Dataset and fitted regression models *)

\* A missing value of a column.
NaN == -1

\* Records of the cohort: treatment art, outcomes dead and cd4_wk45 and the
\* covariate male.  cd4_wk45 is missing for the participants who died, and one
\* record has no value of male.
Cohort ==
    <<[art |-> 1, dead |-> 0, male |-> 0, cd4_wk45 |-> 2],
      [art |-> 1, dead |-> 1, male |-> 1, cd4_wk45 |-> NaN],
      [art |-> 0, dead |-> 1, male |-> 0, cd4_wk45 |-> NaN],
      [art |-> 0, dead |-> 0, male |-> 1, cd4_wk45 |-> 1],
      [art |-> 1, dead |-> 1, male |-> NaN, cd4_wk45 |-> 1]>>

Records == {Cohort[k] : k \in 1..Len(Cohort)}

Columns == {"art", "dead", "male", "cd4_wk45"}

\* Datasets are built by sampling the cohort with replacement, as
\* dfs.sample(n, replace=True) does; a sample is listed in the order of the
\* cohort.
Samples(n) ==
    {Column([i \in 1..n |-> Cohort[ix[i]]], n) :
        ix \in {f \in [1..n -> 1..Len(Cohort)] : \A i \in 1..(n - 1) : f[i] <= f[i + 1]}}

DataSets == {d : d \in UNION {Samples(n) : n \in 1..MaxN}}

\* The datasets the regressions on art, dead and male can be fitted on, as
\* dfcc = df.dropna() leaves them.
CompleteCases ==
    {d : d \in {x \in DataSets :
                    \A i \in 1..Len(x) : \A c \in {"art", "dead", "male"} : x[i][c] # NaN}}

\* Model specifications: the right-hand-side terms of the regression formula.
OutcomeSpecs == {{"art", "male"}, {"male"}}
ExposureSpecs == {{"male"}, {}}

\* bound= of exposure_model: none, the notebook's [0.01, 0.99], or the
\* narrower [1/3, 2/3].
NoBound == <<>>
Bounds == {NoBound, <<<<1, 100>>, <<99, 100>>>>, <<<<1, 3>>, <<2, 3>>>>}

\* The calls of exposure_model: a bound is given with covariates in the model.
ExposureCalls ==
    {<<{"male"}, bound>> : bound \in Bounds} \cup {<<{}, NoBound>>}

\* The formula string of a specification, as passed to outcome_model and
\* exposure_model.
Formula(spec) ==
    CASE spec = {"art", "male"} -> "art + male"
      [] spec = {"male"} -> "male"
      [] spec = {} -> "1"

\* outcome_type of TimeFixedGFormula and the GLM family it selects.
OutcomeTypes == {"binary", "normal", "poisson"}

Family(otype) ==
    CASE otype = "binary" -> "binomial"
      [] otype = "normal" -> "gaussian"
      [] otype = "poisson" -> "poisson"

\* outcome= of the constructor: dead for a binary outcome, cd4_wk45 otherwise.
Outcome(otype) == IF otype = "binary" THEN "dead" ELSE "cd4_wk45"

\* Columns a regression refers to: its left-hand side and its terms.
OutcomeModelColumns(otype, spec) == {Outcome(otype)} \cup spec
ExposureModelColumns(spec) == {"art"} \cup spec

\* Some record of the dataset has no value in one of the columns.
HasMissing(data, cols) ==
    \E i \in 1..Len(data) : \E c \in cols : data[i][c] = NaN

\* Coefficient vectors the regression fitter may return for a specification:
\* a term that is not in the formula has no coefficient (0).
OutcomeFits(spec, family) ==
    {[family |-> family, terms |-> spec, b0 |-> -1, bA |-> a, bL |-> l] :
        a \in (IF "art" \in spec THEN {-1, 1} ELSE {0}),
        l \in (IF "male" \in spec THEN {1} ELSE {0})}

\* Exposure models are logistic; their coefficients give propensities 1/3 and
\* 2/3, or the more extreme 1/5 and 4/5.  The model keeps the bound it was
\* fitted with.
ExposureFits(spec, bound) ==
    {[family |-> "binomial", terms |-> spec, b0 |-> c[1], bA |-> 0, bL |-> c[2],
      bound |-> bound] :
        c \in (IF "male" \in spec THEN {<<-1, 2>>, <<-2, 4>>} ELSE {<<1, 0>>})}

AllOutcomeFits(family) ==
    {m : m \in UNION {OutcomeFits(spec, family) : spec \in OutcomeSpecs}}

AllExposureFits ==
    {m : m \in UNION {ExposureFits(c[1], c[2]) : c \in ExposureCalls}}

\* custom_model=sl: a predictor fitted outside the estimator ("User-specified"
\* in the summary).  It has no coefficients; the estimator knows it by its
\* predictions, predict[a + 1][l + 1] for treatment a and male = l.  The first
\* outcome predictor is the logistic model with coefficients -1, 1, 1 in other
\* clothes, the second predicts as that model does for women and otherwise
\* for men.
CustomOutcomeFits(spec) ==
    {[family |-> "custom", terms |-> spec, b0 |-> 0, bA |-> 0, bL |-> 0, predict |-> p] :
        p \in {<<<< <<1, 3>>, <<1, 2>> >>, << <<1, 2>>, <<2, 3>> >>>>,
                <<<< <<1, 3>>, <<1, 3>> >>, << <<1, 2>>, <<1, 5>> >>>>}}

\* The exposure predictor gives women the propensity 1/3 of the logistic
\* model with coefficients -1, 2, and men the same 1/3.
CustomExposureFits(spec) ==
    {[family |-> "custom", terms |-> spec, b0 |-> 0, bA |-> 0, bL |-> 0,
      predict |-> <<<< <<1, 3>>, <<1, 3>> >>, << <<1, 3>>, <<1, 3>> >>>>,
      bound |-> NoBound]}

\* An outcome predictor that has learnt the cohort by heart: every record of
\* the cohort is alone in its cell of treatment and covariate, and the
\* predictor returns the outcome of the record of the cell, so that it
\* reproduces the observed outcome of every record of every resample.
ExactOutcomeFit ==
    [family |-> "custom", terms |-> {"art", "male"}, b0 |-> 0, bA |-> 0, bL |-> 0,
     predict |-> <<<<One, Zero>>, <<Zero, One>>>>]

\* Linear predictor of a fitted model for treatment a and covariate male = l.
Eta(m, a, l) == m.b0 + m.bA * a + m.bL * l

\* Variant: the gaussian family predicting through the log link.
Predict_logLink(m, a, l) ==
    CASE m.family = "binomial" -> OddsToProb(Pow2(Eta(m, a, l)))
      [] m.family = "gaussian" -> Pow2(Eta(m, a, l))
      [] m.family = "poisson" -> Pow2(Eta(m, a, l))
      [] m.family = "custom" -> m.predict[a + 1][l + 1]

\* predict(): the inverse link applied to the linear predictor, or the
\* prediction of the user-specified predictor.
Predict(m, a, l) ==
    CASE m.family = "binomial" -> OddsToProb(Pow2(Eta(m, a, l)))
      [] m.family = "gaussian" -> RInt(Eta(m, a, l))
      [] m.family = "poisson" -> Pow2(Eta(m, a, l))
      [] m.family = "custom" -> m.predict[a + 1][l + 1]

---------------------------------------------------------------------------
(* Treatment plans of the g-formula *)

TreatAll == "all"
TreatNone == "none"
TreatWomen == "g['male'] == 0"
TreatUnknown == "g['sex'] == 0"
TreatNonBinary == "g['male'] + 1"

Treatments == {TreatAll, TreatNone, TreatWomen, TreatUnknown, TreatNonBinary}

\* Columns a custom treatment expression refers to.
TreatmentColumns(t) ==
    CASE t = TreatWomen -> {"male"}
      [] t = TreatUnknown -> {"sex"}
      [] t = TreatNonBinary -> {"male"}
      [] OTHER -> {}

\* The value the plan assigns to a record.
TreatmentValue(t, rec) ==
    CASE t = TreatAll -> 1
      [] t = TreatNone -> 0
      [] t = TreatWomen -> (IF rec.male = 0 THEN 1 ELSE 0)
      [] t = TreatNonBinary -> rec.male + 1
      [] OTHER -> 0

ValidTreatment(t, data) ==
    /\ TreatmentColumns(t) \subseteq Columns
    /\ \A i \in 1..Len(data) : TreatmentValue(t, data[i]) \in {0, 1}

\* Step 2 of the g-computation: predicted outcome of every record under the plan,
\* the treatment column overridden and the covariates as observed.
PredictUnderPlan(m, data, t) ==
    [i \in 1..Len(data) |-> Predict(m, TreatmentValue(t, data[i]), data[i].male)]

\* Variant: a g-formula that predicts at the observed treatment of every record the
\* plan leaves untreated.
MarginalOutcome_observed(m, data, t) ==
    Mean(Column([i \in 1..Len(data) |->
                    Predict(m, IF TreatmentValue(t, data[i]) = 1 THEN 1 ELSE data[i].art,
                            data[i].male)], Len(data)), Len(data))

\* Variant: the predicted outcomes added up and not divided by n.
MarginalOutcome_total(m, data, t) ==
    RSum(Column(PredictUnderPlan(m, data, t), Len(data)), Len(data))

\* Step 3: the mean of the predicted outcomes.
MarginalOutcome(m, data, t) == Mean(PredictUnderPlan(m, data, t), Len(data))

---------------------------------------------------------------------------
(* Estimator operations *)

Results == <<marginal_outcome, risk_difference, risk_ratio, odds_ratio, confidence_interval>>

\* No parameter has an interval.
NoIntervals == [risk_difference |-> None, risk_ratio |-> None]

NoResults == <<None, None, None, None, NoIntervals>>

\* The record of a call: again is TRUE for a fit that repeats the successful
\* fit before it.
Call(op, arg) ==
    [op |-> op, arg |-> arg,
     again |-> (op = "fit" /\ last.op = "fit" /\ last.arg = arg /\ err = "ok")]

\* Errors of estimation requested too early or with an invalid plan.
ModelNotSpecifiedError == "ModelNotSpecifiedError"
InvalidTreatmentRuleError == "InvalidTreatmentRuleError"
MissingDataError == "MissingDataError"

\* TimeFixedGFormula(df, exposure, outcome, outcome_type), AIPTW(df, ...),
\* TMLE(df, ...): nothing is fitted and no result attribute exists yet.
Construct ==
    /\ kind \in {"gformula", "aiptw", "tmle"}
    /\ df \in DataSets
    /\ outcome_type \in (IF kind = "gformula" THEN OutcomeTypes ELSE {"binary"})
    /\ q_model = NoModel
    /\ g_model = NoModel
    /\ marginal_outcome = None
    /\ risk_difference = None
    /\ risk_ratio = None
    /\ odds_ratio = None
    /\ epsilon = None
    /\ confidence_interval = NoIntervals
    /\ printed = ""
    /\ err = "ok"
    /\ last = [op |-> "init", arg |-> "-", again |-> FALSE]
    /\ r_read = [status |-> "unread", value |-> None]

\* No fit() is running.
Idle == [step |-> 0, Q0 |-> None, g |-> None, H |-> None, eps |-> None]

\* One estimator, called from outside a loop and a script.
Init ==
    /\ Construct
    /\ progress = Idle
    /\ shelf = None
    /\ notebook = None

\* The error outcome_model(model) raises, "ok" when it raises none.
OutcomeModelError(spec) ==
    IF HasMissing(df, OutcomeModelColumns(outcome_type, spec))
    THEN MissingDataError ELSE "ok"

\* Variant: an outcome_model that refuses a dataset with a missing value in any
\* of its columns.
OutcomeModel_anyColumn(spec, print_results) ==
    /\ IF ~HasMissing(df, Columns)
       THEN /\ \E m \in OutcomeFits(spec, Family(outcome_type)) : q_model' = m
            /\ err' = "ok"
            /\ printed' = IF print_results THEN "regression" ELSE ""
       ELSE /\ UNCHANGED q_model
            /\ err' = MissingDataError
            /\ printed' = ""
    /\ last' = Call("outcome_model", Formula(spec))
    /\ UNCHANGED <<confidence_interval,
                   kind, df, outcome_type, g_model, marginal_outcome, risk_difference,
                   risk_ratio, odds_ratio, epsilon, r_read>>

\* What a regression call prints: the results of the regression it has
\* fitted, unless print_results=False.
RegressionOutput(error, print_results) ==
    IF error = "ok" /\ print_results THEN "regression" ELSE ""

\* Variant: a quiet outcome_model that fits the regression for its printout
\* only and stores nothing.
OutcomeModel_quietSkips(spec, print_results) ==
    /\ IF OutcomeModelError(spec) = "ok" /\ print_results
       THEN \E m \in OutcomeFits(spec, Family(outcome_type)) : q_model' = m
       ELSE UNCHANGED q_model
    /\ err' = OutcomeModelError(spec)
    /\ printed' = RegressionOutput(OutcomeModelError(spec), print_results)
    /\ last' = Call("outcome_model", Formula(spec))
    /\ UNCHANGED <<confidence_interval,
                   kind, df, outcome_type, g_model, marginal_outcome, risk_difference,
                   risk_ratio, odds_ratio, epsilon, r_read>>

\* outcome_model(model, print_results): fit the outcome regression and store
\* it.
OutcomeModel(spec, print_results) ==
    /\ IF OutcomeModelError(spec) = "ok"
       THEN \E m \in OutcomeFits(spec, Family(outcome_type)) : q_model' = m
       ELSE UNCHANGED q_model
    /\ err' = OutcomeModelError(spec)
    /\ printed' = RegressionOutput(OutcomeModelError(spec), print_results)
    /\ last' = Call("outcome_model", Formula(spec))
    /\ UNCHANGED <<confidence_interval,
                   kind, df, outcome_type, g_model, marginal_outcome, risk_difference,
                   risk_ratio, odds_ratio, epsilon, r_read>>

\* outcome_model with the predictor that reproduces the observed outcomes in
\* place of the regression.
OutcomeModelExact ==
    /\ kind = "aiptw"
    /\ IF OutcomeModelError({"art", "male"}) = "ok"
       THEN q_model' = ExactOutcomeFit
       ELSE UNCHANGED q_model
    /\ err' = OutcomeModelError({"art", "male"})
    /\ last' = Call("outcome_model", Formula({"art", "male"}))
    /\ printed' = ""
    /\ UNCHANGED <<confidence_interval,
                   kind, df, outcome_type, g_model, marginal_outcome, risk_difference,
                   risk_ratio, odds_ratio, epsilon, r_read>>

\* tmle.outcome_model(model, custom_model=sl): the predictor given by the
\* caller is fitted in place of the regression and stored.
OutcomeModelCustom(spec) ==
    /\ kind = "tmle"
    /\ IF OutcomeModelError(spec) = "ok"
       THEN \E m \in CustomOutcomeFits(spec) : q_model' = m
       ELSE UNCHANGED q_model
    /\ err' = OutcomeModelError(spec)
    /\ last' = Call("outcome_model", Formula(spec))
    /\ printed' = ""
    /\ UNCHANGED <<confidence_interval,
                   kind, df, outcome_type, g_model, marginal_outcome, risk_difference,
                   risk_ratio, odds_ratio, epsilon, r_read>>

\* MarginalOutcome tabulated over the fitted models, datasets and plans.
GFormulaTable ==
    [m \in {f : f \in UNION {AllOutcomeFits(Family(o)) : o \in OutcomeTypes}},
     data \in CompleteCases, t \in Treatments |-> MarginalOutcome(m, data, t)]

\* The error g.fit(treatment) raises, "ok" when it raises none.
GFormulaFitError(t) ==
    IF q_model = NoModel THEN ModelNotSpecifiedError
    ELSE IF ~ValidTreatment(t, df) THEN InvalidTreatmentRuleError
    ELSE "ok"

\* Variant: a fit that, without an outcome model, falls back to the crude mean
\* of the observed outcomes.
GFormulaFit_crudeFallback(t) ==
    /\ kind = "gformula"
    /\ last' = Call("fit", t)
    /\ printed' = ""
    /\ IF q_model # NoModel /\ ~ValidTreatment(t, df)
       THEN /\ err' = InvalidTreatmentRuleError
            /\ UNCHANGED marginal_outcome
       ELSE /\ err' = "ok"
            /\ marginal_outcome' =
                    IF q_model = NoModel
                    THEN Mean([i \in 1..Len(df) |-> RInt(df[i].dead)], Len(df))
                    ELSE GFormulaTable[q_model, df, t]
    /\ UNCHANGED <<confidence_interval,
                   kind, df, outcome_type, q_model, g_model, risk_difference,
                   risk_ratio, odds_ratio, epsilon, r_read>>

\* Variant: a fit that writes the plan into the treatment column of the
\* estimator's dataset instead of a copy.
GFormulaFit_inPlace(t) ==
    /\ kind = "gformula"
    /\ last' = Call("fit", t)
    /\ printed' = ""
    /\ err' = GFormulaFitError(t)
    /\ IF GFormulaFitError(t) = "ok"
       THEN /\ marginal_outcome' = GFormulaTable[q_model, df, t]
            /\ df' = [i \in 1..Len(df) |->
                         [df[i] EXCEPT !.art = TreatmentValue(t, df[i])]]
       ELSE UNCHANGED <<marginal_outcome, df>>
    /\ UNCHANGED <<confidence_interval,
                   kind, outcome_type, q_model, g_model, risk_difference,
                   risk_ratio, odds_ratio, epsilon, r_read>>

\* Variant: a fit that computes the marginal outcome only when the estimator
\* has none yet.
GFormulaFit_keepsFirst(t) ==
    /\ kind = "gformula"
    /\ last' = Call("fit", t)
    /\ printed' = ""
    /\ err' = GFormulaFitError(t)
    /\ IF GFormulaFitError(t) = "ok" /\ marginal_outcome = None
       THEN marginal_outcome' = GFormulaTable[q_model, df, t]
       ELSE UNCHANGED marginal_outcome
    /\ UNCHANGED <<confidence_interval,
                   kind, df, outcome_type, q_model, g_model, risk_difference,
                   risk_ratio, odds_ratio, epsilon, r_read>>

\* Variant: a fit that averages the new marginal outcome with the one the
\* estimator already holds.
GFormulaFit_accumulates(t) ==
    /\ kind = "gformula"
    /\ last' = Call("fit", t)
    /\ printed' = ""
    /\ err' = GFormulaFitError(t)
    /\ IF GFormulaFitError(t) = "ok"
       THEN marginal_outcome' =
                IF marginal_outcome = None THEN GFormulaTable[q_model, df, t]
                ELSE RDiv(RAdd(marginal_outcome, GFormulaTable[q_model, df, t]),
                          RInt(2))
       ELSE UNCHANGED marginal_outcome
    /\ UNCHANGED <<confidence_interval,
                   kind, df, outcome_type, q_model, g_model, risk_difference,
                   risk_ratio, odds_ratio, epsilon, r_read>>

\* Variant: a fit that stores the mean of the predictions before it checks that
\* the plan is binary.
GFormulaFit_storesBeforeCheck(t) ==
    /\ kind = "gformula"
    /\ last' = Call("fit", t)
    /\ printed' = ""
    /\ err' = GFormulaFitError(t)
    /\ IF q_model # NoModel /\ TreatmentColumns(t) \subseteq Columns
       THEN marginal_outcome' = MarginalOutcome(q_model, df, t)
       ELSE UNCHANGED marginal_outcome
    /\ UNCHANGED <<confidence_interval,
                   kind, df, outcome_type, q_model, g_model, risk_difference,
                   risk_ratio, odds_ratio, epsilon, r_read>>

\* Variant: a fit that takes every nonzero value of the plan as "treated" and
\* checks only that the plan's columns exist.
GFormulaFit_truthy(t) ==
    /\ kind = "gformula"
    /\ last' = Call("fit", t)
    /\ printed' = ""
    /\ IF q_model = NoModel
       THEN /\ err' = ModelNotSpecifiedError
            /\ UNCHANGED marginal_outcome
       ELSE IF ~(TreatmentColumns(t) \subseteq Columns)
       THEN /\ err' = InvalidTreatmentRuleError
            /\ UNCHANGED marginal_outcome
       ELSE /\ err' = "ok"
            /\ marginal_outcome' =
                    Mean(Column([i \in 1..Len(df) |->
                                    Predict(q_model,
                                            IF TreatmentValue(t, df[i]) # 0 THEN 1 ELSE 0,
                                            df[i].male)], Len(df)), Len(df))
    /\ UNCHANGED <<confidence_interval,
                   kind, df, outcome_type, q_model, g_model, risk_difference,
                   risk_ratio, odds_ratio, epsilon, r_read>>

\* Variant: the outcome model kept in one place for all instances: fit
\* predicts with the model of whichever instance has one.
GFormulaFit_classModel(t) ==
    /\ kind = "gformula"
    /\ last' = Call("fit", t)
    /\ printed' = ""
    /\ err' = GFormulaFitError(t)
    /\ IF GFormulaFitError(t) = "ok"
       THEN marginal_outcome' =
                GFormulaTable[IF shelf # None /\ shelf.instance.q_model # NoModel
                              THEN shelf.instance.q_model ELSE q_model, df, t]
       ELSE UNCHANGED marginal_outcome
    /\ UNCHANGED <<confidence_interval,
                   kind, df, outcome_type, q_model, g_model, risk_difference,
                   risk_ratio, odds_ratio, epsilon, r_read>>

\* g.fit(treatment): predict under the plan and average; the estimator gains
\* (or overwrites) marginal_outcome.
GFormulaFit(t) ==
    /\ kind = "gformula"
    /\ last' = Call("fit", t)
    /\ printed' = ""
    /\ err' = GFormulaFitError(t)
    /\ IF GFormulaFitError(t) = "ok"
       THEN marginal_outcome' = GFormulaTable[q_model, df, t]
       ELSE UNCHANGED marginal_outcome
    /\ UNCHANGED <<confidence_interval,
                   kind, df, outcome_type, q_model, g_model, risk_difference,
                   risk_ratio, odds_ratio, epsilon, r_read>>

\* A probability restricted to a bound [lo, hi].
Clip(p, bound) ==
    IF bound = NoBound THEN p
    ELSE IF RLess(p, bound[1]) THEN bound[1]
    ELSE IF RLess(bound[2], p) THEN bound[2]
    ELSE p

\* The exposure models TMLE is modelled for: those whose restricted propensities
\* are 1/3 or 2/3, at which exp(epsilon * H) is a power of two (see EpsGrid).
Representable(gm) ==
    \A l \in {0, 1} : Clip(Predict(gm, 0, l), gm.bound) \in {<<1, 3>>, <<2, 3>>}

RepresentableFits == {m : m \in {gm \in AllExposureFits : Representable(gm)}}

\* The error exposure_model(model) raises, "ok" when it raises none.
ExposureModelError(spec) ==
    IF HasMissing(df, ExposureModelColumns(spec)) THEN MissingDataError ELSE "ok"

\* Variant: an exposure_model that starts the estimator afresh, dropping the
\* outcome model stored before it.
ExposureModel_resetsOutcome(spec, bound, print_results) ==
    /\ kind \in {"aiptw", "tmle"}
    /\ IF ExposureModelError(spec) = "ok"
       THEN /\ \E m \in ExposureFits(spec, bound) :
                   /\ kind = "tmle" => Representable(m)
                   /\ g_model' = m
            /\ q_model' = NoModel
       ELSE UNCHANGED <<g_model, q_model>>
    /\ err' = ExposureModelError(spec)
    /\ printed' = RegressionOutput(ExposureModelError(spec), print_results)
    /\ last' = Call("exposure_model", Formula(spec))
    /\ UNCHANGED <<confidence_interval,
                   kind, df, outcome_type, marginal_outcome,
                   risk_difference, risk_ratio, odds_ratio, epsilon, r_read>>

\* exposure_model(model, bound, print_results): fit the logistic treatment
\* model and store it.
ExposureModel(spec, bound, print_results) ==
    /\ kind \in {"aiptw", "tmle"}
    /\ IF ExposureModelError(spec) = "ok"
       THEN \E m \in ExposureFits(spec, bound) :
                /\ kind = "tmle" => Representable(m)
                /\ g_model' = m
       ELSE UNCHANGED g_model
    /\ err' = ExposureModelError(spec)
    /\ printed' = RegressionOutput(ExposureModelError(spec), print_results)
    /\ last' = Call("exposure_model", Formula(spec))
    /\ UNCHANGED <<confidence_interval,
                   kind, df, outcome_type, q_model, marginal_outcome,
                   risk_difference, risk_ratio, odds_ratio, epsilon, r_read>>

\* tmle.exposure_model(model, custom_model=sl).
ExposureModelCustom(spec) ==
    /\ kind = "tmle"
    /\ IF ExposureModelError(spec) = "ok"
       THEN \E m \in CustomExposureFits(spec) : g_model' = m
       ELSE UNCHANGED g_model
    /\ err' = ExposureModelError(spec)
    /\ last' = Call("exposure_model", Formula(spec))
    /\ printed' = ""
    /\ UNCHANGED <<confidence_interval,
                   kind, df, outcome_type, q_model, marginal_outcome,
                   risk_difference, risk_ratio, odds_ratio, epsilon, r_read>>

\* The outcome and exposure models a TMLE can hold.
TMLEOutcomeFits ==
    {m : m \in AllOutcomeFits("binomial") \cup CustomOutcomeFits({"art", "male"})}

TMLEExposureFits == {m : m \in RepresentableFits \cup CustomExposureFits({"male"})}

---------------------------------------------------------------------------
(* AIPTW *)

Ind(b) == IF b THEN One ELSE Zero

\* Variant: the predicted probability used as it is, whatever the bound.
Propensity_unbounded(gm, rec) == Predict(gm, 0, rec.male)

\* Pr(A = 1 | L) of a record, from the exposure model: the predicted
\* probability restricted to the bound.
Propensity(gm, rec) == Clip(Predict(gm, 0, rec.male), gm.bound)

\* Pr(A = a | L).
PrA(gm, rec, a) ==
    IF a = 1 THEN Propensity(gm, rec) ELSE RSub(One, Propensity(gm, rec))

\* Variant: the summand with the augmentation divided by Pr(A=a|L):
\*   Y I(A=a) / Pr(A=a|L) - E[Y|A=a,L] (I(A=a) - Pr(A=a|L)) / Pr(A=a|L).
DoublyRobust_dividedByPr(qm, gm, rec, a) ==
    LET ia == Ind(rec.art = a)
        pa == PrA(gm, rec, a)
        yhat == Predict(qm, a, rec.male)
    IN  RSub(RDiv(RMul(RInt(rec.dead), ia), pa),
             RDiv(RMul(yhat, RSub(ia, pa)), pa))

\* The summand of the AIPTW formula for treatment a:
\*   Y I(A=a) / Pr(A=a|L) - E[Y|A=a,L] (I(A=a) - Pr(A=a|L)) / (1 - Pr(A=a|L)).
DoublyRobust(qm, gm, rec, a) ==
    LET ia == Ind(rec.art = a)
        pa == PrA(gm, rec, a)
        yhat == Predict(qm, a, rec.male)
    IN  RSub(RDiv(RMul(RInt(rec.dead), ia), pa),
             RDiv(RMul(yhat, RSub(ia, pa)), RSub(One, pa)))

\* E[Y^a]: (1/n) times the sum over the records.
AIPTWMean(qm, gm, data, a) ==
    Mean([i \in 1..Len(data) |-> DoublyRobust(qm, gm, data[i], a)], Len(data))

\* The variance of a column of one entry (numpy: nan).
Undefined == <<0, 0>>

Square(x) == RMul(x, x)

\* Sum of the squared deviations of a column from its mean.
SquaredDeviations(col, n) ==
    LET m == Mean(col, n)
    IN  RSum(Column([i \in 1..n |-> Square(RSub(col[i], m))], n), n)

\* Variant: the population variance, the sum divided by n.
SampleVariance_population(col, n) == RDiv(SquaredDeviations(col, n), RInt(n))

\* The sample variance (the square of the sample standard deviation): the sum
\* of the squared deviations divided by n - 1.
SampleVariance(col, n) ==
    IF n < 2 THEN Undefined ELSE RDiv(SquaredDeviations(col, n), RInt(n - 1))

\* The multiplier of a two-sided 95% interval.
Z95 == <<196, 100>>

\* The interval estimate +/- 1.96 SE of an influence curve, SE being the
\* sample standard deviation of the curve divided by sqrt(n). The square root
\* of a rational is no rational: the interval is held as its centre, the
\* multiplier and the square of SE, Var / n.
Interval(estimate, ic, n) ==
    LET var == SampleVariance(ic, n)
    IN  <<estimate, Z95,
          IF var = Undefined THEN Undefined ELSE RDiv(var, RInt(n))>>

\* The influence curve of the AIPTW risk difference.
AIPTWInfluenceCurve(qm, gm, data, rd) ==
    Column([i \in 1..Len(data) |->
               RSub(RSub(DoublyRobust(qm, gm, data[i], 1),
                         DoublyRobust(qm, gm, data[i], 0)), rd)],
           Len(data))

\* The estimates from the two means E[Y^1] and E[Y^0], and the interval of
\* the risk difference; the risk ratio has none.
AIPTWEstimates(qm, gm, data) ==
    LET m1 == AIPTWMean(qm, gm, data, 1)
        m0 == AIPTWMean(qm, gm, data, 0)
        rd == RSub(m1, m0)
    IN  [risk_difference |-> rd, risk_ratio |-> RDiv(m1, m0),
         confidence_interval |->
             [NoIntervals EXCEPT
                 !.risk_difference =
                     Interval(rd, AIPTWInfluenceCurve(qm, gm, data, rd), Len(data))]]

\* AIPTWEstimates tabulated over the fitted models and datasets.
AIPTWTable ==
    [qm \in {m : m \in AllOutcomeFits("binomial") \cup {ExactOutcomeFit}},
     gm \in AllExposureFits, data \in CompleteCases |->
        AIPTWEstimates(qm, gm, data)]

\* The error fit() of AIPTW and TMLE raises, "ok" when it raises none.
DoublyRobustFitError ==
    IF q_model = NoModel \/ g_model = NoModel THEN ModelNotSpecifiedError ELSE "ok"

\* Variant: a fit that, without an exposure model, takes every propensity to
\* be the share of treated records in a balanced cohort.
AIPTWFit_defaultPropensity ==
    /\ kind = "aiptw"
    /\ last' = Call("fit", "-")
    /\ printed' = ""
    /\ IF q_model = NoModel
       THEN /\ err' = ModelNotSpecifiedError
            /\ UNCHANGED <<risk_difference, risk_ratio, confidence_interval>>
       ELSE LET gm == IF g_model = NoModel
                      THEN CHOOSE m \in ExposureFits({}, NoBound) : TRUE
                      ELSE g_model
                est == AIPTWTable[q_model, gm, df]
            IN  /\ err' = "ok"
                /\ risk_difference' = est.risk_difference
                /\ risk_ratio' = est.risk_ratio
                /\ confidence_interval' = est.confidence_interval
    /\ UNCHANGED <<kind, df, outcome_type, q_model, g_model, marginal_outcome,
                   odds_ratio, epsilon, r_read>>

\* Variant: a fit that predicts under treatment 1 and then 0 by overwriting
\* the treatment column of the dataset, and leaves it at 0.
AIPTWFit_inPlace ==
    /\ kind = "aiptw"
    /\ last' = Call("fit", "-")
    /\ printed' = ""
    /\ err' = DoublyRobustFitError
    /\ IF DoublyRobustFitError = "ok"
       THEN LET est == AIPTWTable[q_model, g_model, df]
            IN  /\ risk_difference' = est.risk_difference
                /\ risk_ratio' = est.risk_ratio
                /\ confidence_interval' = est.confidence_interval
                /\ df' = [i \in 1..Len(df) |-> [df[i] EXCEPT !.art = 0]]
       ELSE UNCHANGED <<risk_difference, risk_ratio, confidence_interval, df>>
    /\ UNCHANGED <<kind, outcome_type, q_model, g_model, marginal_outcome,
                   odds_ratio, epsilon, r_read>>

\* aipw.fit(): the estimator gains risk_difference and risk_ratio.
AIPTWFit ==
    /\ kind = "aiptw"
    /\ last' = Call("fit", "-")
    /\ printed' = ""
    /\ err' = DoublyRobustFitError
    /\ IF DoublyRobustFitError = "ok"
       THEN LET est == AIPTWTable[q_model, g_model, df]
            IN  /\ risk_difference' = est.risk_difference
                /\ risk_ratio' = est.risk_ratio
                /\ confidence_interval' = est.confidence_interval
       ELSE UNCHANGED <<risk_difference, risk_ratio, confidence_interval>>
    /\ UNCHANGED <<kind, df, outcome_type, q_model, g_model, marginal_outcome,
                   odds_ratio, epsilon, r_read>>

---------------------------------------------------------------------------
(* TMLE *)

\* The fluctuation parameter ranges over multiples of (2/3) ln 2, for which
\* exp(epsilon * H) is a power of two at the propensities 1/3 and 2/3.
EpsGrid == <<-1, 0, 1>>

\* Step 3: the clever covariate of a record and its treatment-specific forms.
CleverH(gm, rec) ==
    RSub(RDiv(Ind(rec.art = 1), Propensity(gm, rec)),
         RDiv(Ind(rec.art = 0), RSub(One, Propensity(gm, rec))))

CleverH1(gm, rec) == RDiv(One, Propensity(gm, rec))

CleverH0(gm, rec) == RNeg(RDiv(One, RSub(One, Propensity(gm, rec))))

\* exp(e * (2/3) ln 2 * h) = 2^(2 e h / 3).
ExpEpsH(e, h) == Pow2((2 * e * h[1]) \div (3 * h[2]))

\* Variant: the fluctuation added on the probability scale, q + epsilon * h
\* with epsilon = e (2/3) ln 2 taken as e (2/3).
Targeted_linear(q, e, h) == RAdd(q, RMul(<<2 * e, 3>>, h))

\* expit(logit(q) + epsilon * h), computed on the odds scale.
Targeted(q, e, h) == OddsToProb(RMul(Odds(q), ExpEpsH(e, h)))

\* Score of the fluctuation regression of Y on H with offset logit(Q0(A,L)):
\* the sum over the records of H (Y - expit(logit(Q0(A,L)) + e H)).
FluctuationScore(qm, gm, data, e) ==
    RSum([i \in 1..Len(data) |->
            RMul(CleverH(gm, data[i]),
                 RSub(RInt(data[i].dead),
                      Targeted(Predict(qm, data[i].art, data[i].male), e,
                               CleverH(gm, data[i]))))],
         Len(data))

RAbs(x) == <<Abs(x[1]), x[2]>>

\* The better of two candidate values of the coefficient: the one whose score
\* is closer to zero, the earlier one on a tie.
CloserToZero(best, cand) == IF RLess(cand[2], best[2]) THEN cand ELSE best

RECURSIVE GridSearch(_, _, _, _, _)
GridSearch(qm, gm, data, grid, best) ==
    IF grid = <<>> THEN best[1]
    ELSE GridSearch(qm, gm, data, Tail(grid),
                    CloserToZero(best,
                                 <<Head(grid),
                                   RAbs(FluctuationScore(qm, gm, data, Head(grid)))>>))

\* Variant: no targeting when a model is user-specified.
FitFluctuation_builtInOnly(qm, gm, data) ==
    IF qm.family = "custom" \/ gm.family = "custom" THEN 0
    ELSE GridSearch(qm, gm, data, Tail(EpsGrid),
                    <<Head(EpsGrid), RAbs(FluctuationScore(qm, gm, data, Head(EpsGrid)))>>)

\* Step 4: the maximum-likelihood value of the single coefficient, i.e. the
\* grid point at which the score is closest to zero.
FitFluctuation(qm, gm, data) ==
    GridSearch(qm, gm, data, Tail(EpsGrid),
               <<Head(EpsGrid), RAbs(FluctuationScore(qm, gm, data, Head(EpsGrid)))>>)

\* Step 5: targeted predictions under treatment a for every record.
TargetedColumn(qm, gm, data, e, a) ==
    Column([i \in 1..Len(data) |->
               Targeted(Predict(qm, a, data[i].male), e,
                        IF a = 1 THEN CleverH1(gm, data[i])
                        ELSE CleverH0(gm, data[i]))],
           Len(data))

\* Variant: the ratio parameters averaged over per-record ratios.
TMLEParameters_perRecord(q1, q0, n) ==
    [risk_difference |-> Mean([i \in 1..n |-> RSub(q1[i], q0[i])], n),
     risk_ratio |-> Mean([i \in 1..n |-> RDiv(q1[i], q0[i])], n),
     odds_ratio |-> Mean([i \in 1..n |->
                            RDiv(RDiv(q1[i], RSub(One, q1[i])),
                                 RDiv(q0[i], RSub(One, q0[i])))], n)]

\* The target parameters from the targeted predictions.
TMLEParameters(q1, q0, n) ==
    LET m1 == Mean(q1, n)
        m0 == Mean(q0, n)
    IN  [risk_difference |-> Mean([i \in 1..n |-> RSub(q1[i], q0[i])], n),
         risk_ratio |-> RDiv(m1, m0),
         odds_ratio |-> RDiv(RDiv(m1, RSub(One, m1)), RDiv(m0, RSub(One, m0)))]

\* H (Y - Q*(A,L)) of every record, Q*(A,L) the targeted prediction under the
\* observed treatment.
TargetedResidual(qm, gm, data, e) ==
    Column([i \in 1..Len(data) |->
               RMul(CleverH(gm, data[i]),
                    RSub(RInt(data[i].dead),
                         Targeted(Predict(qm, data[i].art, data[i].male), e,
                                  CleverH(gm, data[i]))))],
           Len(data))

\* The efficient influence curve of the mean under treatment a, hr holding
\* H (Y - Q*(A,L)):  I(A=a) |H| (Y - Q*(A,L)) + Q*(a,L) - E[Y^a].
MeanInfluenceCurve(data, hr, q, a, n) ==
    LET m == Mean(q, n)
    IN  Column([i \in 1..n |->
                   RSub(RAdd(RMul(Ind(data[i].art = a),
                                  IF a = 1 THEN hr[i] ELSE RNeg(hr[i])), q[i]), m)], n)

\* The influence curves: that of the risk difference is
\* H (Y - Q*(A,L)) + Q*(1,L) - Q*(0,L) - RD, that of the risk ratio is on the
\* log scale, by the delta method. (The curve of the odds ratio has squares
\* beyond the integers of the model checker; its interval is not held.)
TMLEInfluenceCurves(data, hr, q1, q0, n) ==
    LET m1 == Mean(q1, n)
        m0 == Mean(q0, n)
        d1 == MeanInfluenceCurve(data, hr, q1, 1, n)
        d0 == MeanInfluenceCurve(data, hr, q0, 0, n)
    IN  [risk_difference |->
             Column([i \in 1..n |->
                        RSub(RAdd(hr[i], RSub(q1[i], q0[i])), RSub(m1, m0))], n),
         risk_ratio |->
             Column([i \in 1..n |-> RSub(RDiv(d1[i], m1), RDiv(d0[i], m0))], n)]

\* Steps 1 to 5 on a dataset with the two fitted models, and the intervals:
\* that of the risk ratio is exp(log(estimate) +/- 1.96 SE), held as the
\* estimate, the multiplier and the square of SE on the log scale.
TMLEEstimates(qm, gm, data) ==
    LET n == Len(data)
        e == FitFluctuation(qm, gm, data)
        q1 == TargetedColumn(qm, gm, data, e, 1)
        q0 == TargetedColumn(qm, gm, data, e, 0)
        est == TMLEParameters(q1, q0, n)
        ic == TMLEInfluenceCurves(data, TargetedResidual(qm, gm, data, e), q1, q0, n)
    IN  [epsilon |-> RInt(e), risk_difference |-> est.risk_difference,
         risk_ratio |-> est.risk_ratio, odds_ratio |-> est.odds_ratio,
         confidence_interval |->
             [risk_difference |-> Interval(est.risk_difference, ic.risk_difference, n),
              risk_ratio |-> Interval(est.risk_ratio, ic.risk_ratio, n)]]

\* TMLEEstimates tabulated over the fitted models and datasets.
TMLETable ==
    [qm \in TMLEOutcomeFits, gm \in TMLEExposureFits, data \in CompleteCases |->
        TMLEEstimates(qm, gm, data)]

\* tml.fit(): the targeting step and the estimation.
TMLEFit ==
    /\ kind = "tmle"
    /\ last' = Call("fit", "-")
    /\ printed' = ""
    /\ err' = DoublyRobustFitError
    /\ IF DoublyRobustFitError = "ok"
       THEN LET est == TMLETable[q_model, g_model, df]
            IN  /\ epsilon' = est.epsilon
                /\ risk_difference' = est.risk_difference
                /\ risk_ratio' = est.risk_ratio
                /\ odds_ratio' = est.odds_ratio
                /\ confidence_interval' = est.confidence_interval
       ELSE UNCHANGED <<risk_difference, risk_ratio, odds_ratio, epsilon,
                        confidence_interval>>
    /\ UNCHANGED <<kind, df, outcome_type, q_model, g_model, marginal_outcome,
                   r_read>>

---------------------------------------------------------------------------
(* TMLE fit() step by step *)

\* Step 1: the initial predictions Q0 of every record, at the observed
\* treatment and under treatment 1 and 0.
InitialPredictions(qm, data) ==
    LET n == Len(data)
    IN  [obs |-> Column([i \in 1..n |-> Predict(qm, data[i].art, data[i].male)], n),
         q1 |-> Column([i \in 1..n |-> Predict(qm, 1, data[i].male)], n),
         q0 |-> Column([i \in 1..n |-> Predict(qm, 0, data[i].male)], n)]

\* Step 2: the predicted probability of treatment of every record, bounded.
Propensities(gm, data) ==
    Column([i \in 1..Len(data) |-> Propensity(gm, data[i])], Len(data))

\* Variant: H0 with the sign of H1.
CleverCovariates_sameSign(g, data) ==
    LET n == Len(data)
    IN  [H |-> Column([i \in 1..n |->
                          RSub(RDiv(Ind(data[i].art = 1), g[i]),
                               RDiv(Ind(data[i].art = 0), RSub(One, g[i])))], n),
         H1 |-> Column([i \in 1..n |-> RDiv(One, g[i])], n),
         H0 |-> Column([i \in 1..n |-> RDiv(One, RSub(One, g[i]))], n)]

\* Step 3: the clever covariates from the probabilities of step 2, pi_1 = g
\* and pi_0 = 1 - g.
CleverCovariates(g, data) ==
    LET n == Len(data)
    IN  [H |-> Column([i \in 1..n |->
                          RSub(RDiv(Ind(data[i].art = 1), g[i]),
                               RDiv(Ind(data[i].art = 0), RSub(One, g[i])))], n),
         H1 |-> Column([i \in 1..n |-> RDiv(One, g[i])], n),
         H0 |-> Column([i \in 1..n |-> RNeg(RDiv(One, RSub(One, g[i])))], n)]

\* Step 4: the logistic regression of Y on H with the offset logit(Q), whose
\* one coefficient is the grid point with the score closest to zero.
Fluctuation(H, Q, data) ==
    LET n == Len(data)
        score(e) ==
            RAbs(RSum(Column([i \in 1..n |->
                                 RMul(H[i], RSub(RInt(data[i].dead),
                                                 Targeted(Q[i], e, H[i])))], n), n))
        best[k \in 1..Len(EpsGrid)] ==
            IF k = 1 THEN <<EpsGrid[1], score(EpsGrid[1])>>
            ELSE CloserToZero(best[k - 1], <<EpsGrid[k], score(EpsGrid[k])>>)
    IN  best[Len(EpsGrid)][1]

\* Step 5: the targeted predictions, and the estimates and intervals from
\* them.
TargetedEstimates(Q0, H, e, data) ==
    LET n == Len(data)
        q1 == Column([i \in 1..n |-> Targeted(Q0.q1[i], e, H.H1[i])], n)
        q0 == Column([i \in 1..n |-> Targeted(Q0.q0[i], e, H.H0[i])], n)
        hr == Column([i \in 1..n |->
                         RMul(H.H[i], RSub(RInt(data[i].dead),
                                           Targeted(Q0.obs[i], e, H.H[i])))], n)
        est == TMLEParameters(q1, q0, n)
        ic == TMLEInfluenceCurves(data, hr, q1, q0, n)
    IN  [epsilon |-> RInt(e), risk_difference |-> est.risk_difference,
         risk_ratio |-> est.risk_ratio, odds_ratio |-> est.odds_ratio,
         confidence_interval |->
             [risk_difference |-> Interval(est.risk_difference, ic.risk_difference, n),
              risk_ratio |-> Interval(est.risk_ratio, ic.risk_ratio, n)]]

\* What a step inside fit() leaves as it is: the call has not returned.
Running ==
    UNCHANGED <<kind, df, outcome_type, q_model, g_model, marginal_outcome,
                risk_difference, risk_ratio, odds_ratio, epsilon, confidence_interval,
                printed, err, last, r_read, shelf, notebook>>

\* Variant: a first step that exposes the difference of the initial
\* predictions as the risk difference until the targeted one replaces it.
FitStep1_exposesInitial ==
    /\ kind = "tmle" /\ progress.step = 0
    /\ IF DoublyRobustFitError = "ok"
       THEN /\ progress' = [Idle EXCEPT !.step = 1,
                                        !.Q0 = InitialPredictions(q_model, df)]
            /\ risk_difference' =
                   LET Q0 == InitialPredictions(q_model, df)
                   IN  Mean([i \in 1..Len(df) |-> RSub(Q0.q1[i], Q0.q0[i])], Len(df))
            /\ UNCHANGED <<err, last, printed>>
       ELSE /\ err' = DoublyRobustFitError
            /\ last' = Call("fit", "-")
            /\ printed' = ""
            /\ UNCHANGED <<progress, risk_difference>>
    /\ UNCHANGED <<kind, df, outcome_type, q_model, g_model, marginal_outcome,
                   risk_ratio, odds_ratio, epsilon, confidence_interval,
                   r_read, shelf, notebook>>

\* tml.fit() begins: without both models it raises its error and returns;
\* with them it predicts Q0 (step 1).
FitStep1 ==
    /\ kind = "tmle" /\ progress.step = 0
    /\ IF DoublyRobustFitError = "ok"
       THEN /\ progress' = [Idle EXCEPT !.step = 1,
                                        !.Q0 = InitialPredictions(q_model, df)]
            /\ UNCHANGED <<err, last, printed>>
       ELSE /\ err' = DoublyRobustFitError
            /\ last' = Call("fit", "-")
            /\ printed' = ""
            /\ UNCHANGED progress
    /\ UNCHANGED <<kind, df, outcome_type, q_model, g_model, marginal_outcome,
                   risk_difference, risk_ratio, odds_ratio, epsilon,
                   confidence_interval, r_read, shelf, notebook>>

FitStep2 ==
    /\ progress.step = 1
    /\ progress' = [progress EXCEPT !.step = 2, !.g = Propensities(g_model, df)]
    /\ Running

FitStep3 ==
    /\ progress.step = 2
    /\ progress' = [progress EXCEPT !.step = 3, !.H = CleverCovariates(progress.g, df)]
    /\ Running

FitStep4 ==
    /\ progress.step = 3
    /\ progress' = [progress EXCEPT
                        !.step = 4,
                        !.eps = RInt(Fluctuation(progress.H.H, progress.Q0.obs, df))]
    /\ Running

\* The last step: fit() returns with the estimates on the estimator.
FitStep5 ==
    /\ progress.step = 4
    /\ LET est == TargetedEstimates(progress.Q0, progress.H, progress.eps[1], df)
       IN  /\ epsilon' = est.epsilon
           /\ risk_difference' = est.risk_difference
           /\ risk_ratio' = est.risk_ratio
           /\ odds_ratio' = est.odds_ratio
           /\ confidence_interval' = est.confidence_interval
    /\ progress' = Idle
    /\ last' = Call("fit", "-")
    /\ err' = "ok"
    /\ printed' = ""
    /\ UNCHANGED <<kind, df, outcome_type, q_model, g_model, marginal_outcome,
                   r_read, shelf, notebook>>

---------------------------------------------------------------------------
(* The caller *)

\* The result attributes exist once fit() has run.
HasResults ==
    CASE kind = "gformula" -> marginal_outcome # None
      [] kind = "aiptw" -> risk_difference # None /\ risk_ratio # None
      [] kind = "tmle" -> /\ risk_difference # None
                          /\ risk_ratio # None
                          /\ odds_ratio # None

ModelsReady ==
    /\ q_model # NoModel
    /\ kind = "gformula" \/ g_model # NoModel

EstimatorState ==
    IF HasResults THEN "Estimated"
    ELSE IF ModelsReady THEN "ModelsFit" ELSE "Configured"

\* Variant: the attribute exists from construction, holding nothing until fit.
ReadMarginalOutcome_fromConstruction ==
    /\ kind = "gformula"
    /\ r_read' = [status |-> "ok", value |-> marginal_outcome]
    /\ printed' = printed
    /\ UNCHANGED <<confidence_interval,
                   kind, df, outcome_type, q_model, g_model, marginal_outcome,
                   risk_difference, risk_ratio, odds_ratio, epsilon, err, last>>

\* r_all = g.marginal_outcome: the caller of the g-formula stores the attribute
\* in a variable of its own; the read fails while the attribute does not exist.
ReadMarginalOutcome ==
    /\ kind = "gformula"
    /\ r_read' = IF HasResults
                 THEN [status |-> "ok", value |-> marginal_outcome]
                 ELSE [status |-> ModelNotSpecifiedError, value |-> r_read.value]
    /\ printed' = printed
    /\ UNCHANGED <<confidence_interval,
                   kind, df, outcome_type, q_model, g_model, marginal_outcome,
                   risk_difference, risk_ratio, odds_ratio, epsilon, err, last>>

\* print(aipw.risk_difference), tml.summary(): the estimates are printed, not
\* kept by the caller.
PrintEstimates ==
    /\ kind \in {"aiptw", "tmle"}
    /\ r_read' = [status |-> IF HasResults THEN "ok" ELSE ModelNotSpecifiedError,
                  value |-> None]
    /\ printed' = printed
    /\ UNCHANGED <<confidence_interval,
                   kind, df, outcome_type, q_model, g_model, marginal_outcome,
                   risk_difference, risk_ratio, odds_ratio, epsilon, err, last>>

\* A call on one estimator is synchronous and touches that estimator only: no
\* fit() is left running, and no other instance and no name of the caller is
\* involved.
Alone == UNCHANGED <<progress, shelf, notebook>>

\* The calls of an estimator, the regressions printing their results as they
\* do by default.
Next ==
    \/ (\E spec \in OutcomeSpecs : OutcomeModel(spec, TRUE)) /\ Alone
    \/ (\E c \in ExposureCalls : ExposureModel(c[1], c[2], TRUE)) /\ Alone
    \/ OutcomeModelCustom({"art", "male"}) /\ Alone
    \/ ExposureModelCustom({"male"}) /\ Alone
    \/ (\E t \in Treatments : GFormulaFit(t)) /\ Alone
    \/ AIPTWFit /\ Alone
    \/ TMLEFit /\ Alone
    \/ ReadMarginalOutcome /\ Alone
    \/ PrintEstimates /\ Alone

Spec == Init /\ [][Next]_vars

\* The estimators of the bootstrap loops: a g-formula or AIPTW on a resample of
\* the complete cases, whose regression calls are made with either value of
\* print_results (False in the loops) and without a bound.
InitQuiet ==
    /\ Init
    /\ kind \in {"gformula", "aiptw"}
    /\ df \in CompleteCases

NextQuiet ==
    \/ (\E spec \in OutcomeSpecs, p \in BOOLEAN : OutcomeModel(spec, p)) /\ Alone
    \/ (\E spec \in ExposureSpecs, p \in BOOLEAN : ExposureModel(spec, NoBound, p))
            /\ Alone
    \/ (\E t \in Treatments : GFormulaFit(t)) /\ Alone
    \/ AIPTWFit /\ Alone
    \/ ReadMarginalOutcome /\ Alone
    \/ PrintEstimates /\ Alone

SpecQuiet == InitQuiet /\ [][NextQuiet]_vars

\* A TMLE estimator on complete cases, with regressions for its two models,
\* whose fit() is followed step by step.  The calls are synchronous: no other
\* call is made, and no result is read, while fit() runs.
InitSteps ==
    /\ Init
    /\ kind = "tmle"
    /\ df \in CompleteCases

NextSteps ==
    \/ /\ progress.step = 0
       /\ \/ \E spec \in OutcomeSpecs : OutcomeModel(spec, TRUE)
          \/ \E c \in ExposureCalls : ExposureModel(c[1], c[2], TRUE)
       /\ Alone
    \/ FitStep1
    \/ FitStep2
    \/ FitStep3
    \/ FitStep4
    \/ FitStep5

SpecSteps == InitSteps /\ [][NextSteps]_vars

\* AIPTW with an outcome predictor that reproduces the observed outcome of
\* every record, and any of the exposure models.
InitExact ==
    /\ Init
    /\ kind = "aiptw"
    /\ df \in CompleteCases

NextExact ==
    \/ (\E c \in ExposureCalls : ExposureModel(c[1], c[2], TRUE)) /\ Alone
    \/ OutcomeModelExact /\ Alone
    \/ AIPTWFit /\ Alone
    \/ PrintEstimates /\ Alone

SpecExact == InitExact /\ [][NextExact]_vars

\* dfs, dfcc: the dataset the bootstrap loops resample, the records of the
\* cohort without a missing value in the columns of the regressions.
SourceData ==
    SelectSeq(Cohort, LAMBDA rec : \A c \in {"art", "dead", "male"} : rec[c] # NaN)

\* The estimator instance the calls are made on, as one value.
Instance ==
    [kind |-> kind, df |-> df, outcome_type |-> outcome_type, q_model |-> q_model,
     g_model |-> g_model, marginal_outcome |-> marginal_outcome,
     risk_difference |-> risk_difference, risk_ratio |-> risk_ratio,
     odds_ratio |-> odds_ratio, epsilon |-> epsilon,
     confidence_interval |-> confidence_interval, printed |-> printed,
     err |-> err, last |-> last, r_read |-> r_read]

\* Two repetitions of a bootstrap loop run interleaved: the caller goes on
\* with the other repetition's estimator and leaves this one as it is.
Switch ==
    /\ kind' = shelf.instance.kind
    /\ df' = shelf.instance.df
    /\ outcome_type' = shelf.instance.outcome_type
    /\ q_model' = shelf.instance.q_model
    /\ g_model' = shelf.instance.g_model
    /\ marginal_outcome' = shelf.instance.marginal_outcome
    /\ risk_difference' = shelf.instance.risk_difference
    /\ risk_ratio' = shelf.instance.risk_ratio
    /\ odds_ratio' = shelf.instance.odds_ratio
    /\ epsilon' = shelf.instance.epsilon
    /\ confidence_interval' = shelf.instance.confidence_interval
    /\ printed' = shelf.instance.printed
    /\ err' = shelf.instance.err
    /\ last' = shelf.instance.last
    /\ r_read' = shelf.instance.r_read
    /\ shelf' = [shelf EXCEPT !.instance = Instance]
    /\ UNCHANGED <<progress, notebook>>

\* Two repetitions of a bootstrap loop, each with a fresh g-formula or AIPTW
\* estimator on its own resample of the source dataset, of the same size.
InitBootstrap ==
    /\ Construct
    /\ kind \in {"gformula", "aiptw"}
    /\ outcome_type = "binary"
    /\ df \in CompleteCases
    /\ progress = Idle
    /\ notebook = None
    /\ \E s \in {d \in CompleteCases : Len(d) = Len(df)} :
           shelf = [source |-> SourceData, instance |-> [Instance EXCEPT !.df = s]]

\* The body of the loops, in the order of its lines, on either repetition.
NextBootstrap ==
    \/ /\ last.op = "init"
       /\ ExposureModel({"male"}, NoBound, FALSE)
       /\ Alone
    \/ /\ last.op = (IF kind = "aiptw" THEN "exposure_model" ELSE "init")
       /\ OutcomeModel({"art", "male"}, FALSE)
       /\ Alone
    \/ /\ last.op = "outcome_model"
       /\ GFormulaFit(TreatAll) \/ AIPTWFit
       /\ Alone
    \/ /\ last.op = "fit" /\ last.arg = TreatAll /\ r_read.status = "ok"
       /\ GFormulaFit(TreatNone)
       /\ Alone
    \/ /\ last.op = "fit"
       /\ r_read.status = "unread" \/ (kind = "gformula" /\ r_read.value # marginal_outcome)
       /\ ReadMarginalOutcome \/ PrintEstimates
       /\ Alone
    \/ Switch

SpecBootstrap == InitBootstrap /\ [][NextBootstrap]_vars

\* The g-formula notebook run as a script, cell after cell: the estimator the
\* name g is bound to is the one the calls of a cell are made on, and the
\* results are kept in the names r_all, r_none, r_women and r_custom.  The
\* bootstrap loop assigns to g, r_all and r_none in each pass.
\*
\*    1  g.outcome_model(...)           7  for ...: s = dfs.sample(...)
\*    2  g.fit('all')                      g = TimeFixedGFormula(s, ...)
\*    3  r_all = g.marginal_outcome     8  g.outcome_model(..., False)
\*    4  g.fit('none')                  9  g.fit('all')
\*    5  r_none = g.marginal_outcome   10  r_all = g.marginal_outcome
\*    6  print RD: r_all - r_none      11  g.fit('none')
\*                                     12  r_none = g.marginal_outcome
\*   13  g.fit("g['male'] == 0")       16  g.fit(custom plan)
\*   14  r_women = g.marginal_outcome  17  r_custom = g.marginal_outcome
\*   15  print RD: r_women - r_none    18  print RD: r_custom - r_none

\* Number of passes of the bootstrap loop.
LoopPasses == 2

\* The statement that follows statement c: the last line of the loop body
\* returns to the head of the loop.
After(c) == IF c = 12 THEN 7 ELSE c + 1

\* g = TimeFixedGFormula(dfs, exposure='art', outcome='dead') of the first
\* cell: no name of a result is bound yet and nothing has been printed.
InitNotebook ==
    /\ Construct
    /\ kind = "gformula"
    /\ outcome_type = "binary"
    /\ df \in CompleteCases
    /\ progress = Idle
    /\ shelf = None
    /\ notebook = [cell |-> 1, pass |-> 0, g |-> 0, dfs |-> df,
                   r_all |-> None, r_none |-> None, r_women |-> None,
                   r_custom |-> None, out |-> <<>>]

\* A statement runs when the one before it has not raised.
RunOutcomeModel(c, print_results) ==
    /\ notebook.cell = c
    /\ err = "ok"
    /\ OutcomeModel({"art", "male"}, print_results)
    /\ notebook' = [notebook EXCEPT !.cell = After(c)]
    /\ UNCHANGED <<progress, shelf>>

RunFit(c, t) ==
    /\ notebook.cell = c
    /\ err = "ok"
    /\ GFormulaFit(t)
    /\ notebook' = [notebook EXCEPT !.cell = After(c)]
    /\ UNCHANGED <<progress, shelf>>

\* Variant: a loop body that keeps its results in names of its own.
RunRead_loopLocal(c, name) ==
    /\ notebook.cell = c
    /\ err = "ok"
    /\ ReadMarginalOutcome
    /\ notebook' = IF c \in 7..12
                   THEN [notebook EXCEPT !.cell = After(c)]
                   ELSE [notebook EXCEPT
                            !.cell = After(c),
                            ![name] = [value |-> r_read'.value, g |-> notebook.g,
                                       df |-> df, q_model |-> q_model]]
    /\ UNCHANGED <<progress, shelf>>

\* name = g.marginal_outcome: the name is bound to the value read from the
\* estimator g is bound to, which has this dataset and this outcome model.
RunRead(c, name) ==
    /\ notebook.cell = c
    /\ err = "ok"
    /\ ReadMarginalOutcome
    /\ notebook' = [notebook EXCEPT
                       !.cell = After(c),
                       ![name] = [value |-> r_read'.value, g |-> notebook.g,
                                  df |-> df, q_model |-> q_model]]
    /\ UNCHANGED <<progress, shelf>>

\* print('RD:', name - r_none): the difference of what the two names are
\* bound to is printed.
RunPrint(c, name) ==
    /\ notebook.cell = c
    /\ err = "ok" /\ r_read.status = "ok"
    /\ notebook' = [notebook EXCEPT
                       !.cell = After(c),
                       !.out = Append(@, [left |-> notebook[name],
                                          right |-> notebook.r_none])]
    /\ UNCHANGED <<kind, df, outcome_type, q_model, g_model, marginal_outcome,
                   risk_difference, risk_ratio, odds_ratio, epsilon,
                   confidence_interval, printed, err, last, r_read, progress, shelf>>

\* The head of the loop: a further pass draws a resample of dfs, of its size,
\* and binds g to a new estimator on it; after the last pass the script goes
\* on with the next cell.
LoopHead ==
    /\ notebook.cell = 7
    /\ err = "ok"
    /\ IF notebook.pass < LoopPasses
       THEN /\ \E s \in {d \in CompleteCases :
                            /\ Len(d) = Len(notebook.dfs)
                            /\ \A i \in 1..Len(d) :
                                   \E j \in 1..Len(notebook.dfs) : d[i] = notebook.dfs[j]} :
                   df' = s
            /\ q_model' = NoModel
            /\ marginal_outcome' = None
            /\ printed' = ""
            /\ err' = "ok"
            /\ last' = [op |-> "init", arg |-> "-", again |-> FALSE]
            /\ r_read' = [status |-> "unread", value |-> None]
            /\ notebook' = [notebook EXCEPT !.cell = 8, !.pass = @ + 1, !.g = @ + 1]
       ELSE /\ notebook' = [notebook EXCEPT !.cell = 13]
            /\ UNCHANGED <<df, q_model, marginal_outcome, printed, err, last, r_read>>
    /\ UNCHANGED <<kind, outcome_type, g_model, risk_difference, risk_ratio,
                   odds_ratio, epsilon, confidence_interval, progress, shelf>>

\* The statements of the notebook in cell order.  The second custom plan of
\* the notebook is over columns the datasets here do not have; the plan over
\* male stands for it.
NextNotebook ==
    \/ RunOutcomeModel(1, TRUE)
    \/ RunOutcomeModel(8, FALSE)
    \/ \E c \in {2, 9} : RunFit(c, TreatAll)
    \/ \E c \in {4, 11} : RunFit(c, TreatNone)
    \/ \E c \in {13, 16} : RunFit(c, TreatWomen)
    \/ \E c \in {3, 10} : RunRead(c, "r_all")
    \/ \E c \in {5, 12} : RunRead(c, "r_none")
    \/ RunRead(14, "r_women")
    \/ RunRead(17, "r_custom")
    \/ RunPrint(6, "r_all")
    \/ RunPrint(15, "r_women")
    \/ RunPrint(18, "r_custom")
    \/ LoopHead

SpecNotebook == InitNotebook /\ [][NextNotebook]_vars


-----------------------------------------------------------------------------
\* Claims about estimation.

\* The plan written out per record: everyone treated, no one treated, exactly
\* the women treated, or the male indicator plus one.
ForcedTreatment(t, rec) ==
    CASE t = "all" -> 1
      [] t = "none" -> 0
      [] t = "g['male'] == 0" -> 1 - rec.male
      [] t = "g['male'] + 1" -> rec.male + 1

\* The sum over the records of the prediction with treatment forced to the plan
\* and the covariates as observed.
SumOfPlanPredictions ==
    [m \in {f : f \in UNION {AllOutcomeFits(Family(o)) : o \in OutcomeTypes}},
     data \in CompleteCases,
     t \in {"all", "none", "g['male'] == 0", "g['male'] + 1"} |->
        RSum(Column([i \in 1..Len(data) |->
                        Predict(m, ForcedTreatment(t, data[i]), data[i].male)],
                    Len(data)), Len(data))]

\* C1: after a successful g-formula fit under a plan, marginal_outcome times the
\* number of records is the sum, over all records, of the outcome model's
\* prediction with the treatment replaced by the plan's value for the record
\* and the covariates left as observed: it is the arithmetic mean of these.
C1_MarginalOutcomeIsMean ==
    (kind = "gformula" /\ last.op = "fit" /\ err = "ok")
        => RMul(marginal_outcome, RInt(Len(df))) = SumOfPlanPredictions[q_model, df, last.arg]

\* A custom plan has been fitted on a cohort of a man and a woman with an
\* outcome model in which treatment matters.
C1_Witness ==
    /\ kind = "gformula" /\ last.op = "fit" /\ err = "ok"
    /\ last.arg = "g['male'] == 0"
    /\ q_model.bA # 0
    /\ \E i, j \in 1..Len(df) : df[i].male = 0 /\ df[j].male = 1 /\ df[j].art = 1
    /\ marginal_outcome # None


\* max(lo, min(hi, p)) for a bound [lo, hi]; p itself without a bound.
Bounded(p, bound) ==
    IF bound = <<>> THEN p
    ELSE LET low == IF RLeq(p, bound[2]) THEN p ELSE bound[2]
         IN  IF RLeq(bound[1], low) THEN low ELSE bound[1]

\* DR_a of one record by cases.  For a record whose treatment is a the indicator
\* is 1 and the augmentation's fraction is (1 - P) / (1 - P) = 1, leaving
\* Y / P - Yhat; for any other record the indicator is 0, leaving
\* Yhat * P / (1 - P).  P is Pr(A=a|L), Yhat is E[Y|A=a,L].
DRByCase(qm, gm, rec, a) ==
    LET p1 == Bounded(OddsToProb(Pow2(gm.b0 + gm.bL * rec.male)), gm.bound)
        p == IF a = 1 THEN p1 ELSE RSub(One, p1)
        yhat == Predict(qm, a, rec.male)
    IN  IF rec.art = a
        THEN RSub(RDiv(RInt(rec.dead), p), yhat)
        ELSE RDiv(RMul(yhat, p), RSub(One, p))

\* n * mean(DR_1) and n * mean(DR_0) of a dataset.
DRSums ==
    [qm \in AllOutcomeFits("binomial"), gm \in AllExposureFits, data \in CompleteCases |->
        [a \in {0, 1} |->
            RSum(Column([i \in 1..Len(data) |-> DRByCase(qm, gm, data[i], a)],
                        Len(data)), Len(data))]]

ExpitOfLogitPlus(q, e, h) ==
    LET k == Pow2((2 * e * h[1]) \div (3 * h[2]))
    IN  RDiv(RMul(q, k), RAdd(RSub(One, q), RMul(q, k)))

\* The means of Q*1 and Q*0 over the records, for fluctuation parameter e, with
\* H1 = 1 / g and H0 = -1 / (1 - g), g the record's propensity.
TargetedMeans ==
    [qm \in TMLEOutcomeFits, gm \in TMLEExposureFits, data \in CompleteCases,
     e \in {EpsGrid[k] : k \in 1..Len(EpsGrid)} |->
        LET n == Len(data)
            g(i) == Bounded(IF gm.family = "custom" THEN gm.predict[1][data[i].male + 1]
                            ELSE OddsToProb(Pow2(gm.b0 + gm.bL * data[i].male)),
                            gm.bound)
            q1 == Column([i \in 1..n |->
                            ExpitOfLogitPlus(Predict(qm, 1, data[i].male), e,
                                             RDiv(One, g(i)))], n)
            q0 == Column([i \in 1..n |->
                            ExpitOfLogitPlus(Predict(qm, 0, data[i].male), e,
                                             RDiv(RInt(-1), RSub(One, g(i))))], n)
        IN  <<RDiv(RSum(q1, n), RInt(n)), RDiv(RSum(q0, n), RInt(n))>>]

\* C3: after a successful TMLE fit with fluctuation parameter eps, with
\* Q*1 = expit(logit(Q0(1,L)) + eps H1) and Q*0 = expit(logit(Q0(0,L)) + eps H0)
\* per record, risk_difference = mean(Q*1 - Q*0) (the difference of the two
\* means), risk_ratio = mean(Q*1) / mean(Q*0), and odds_ratio is the odds of
\* mean(Q*1) over the odds of mean(Q*0): computed from the means.
C3_TMLEEstimates ==
    (kind = "tmle" /\ last.op = "fit" /\ err = "ok")
        => LET m == TargetedMeans[q_model, g_model, df, epsilon[1]]
           IN  /\ epsilon[2] = 1
               /\ risk_difference = RSub(m[1], m[2])
               /\ risk_ratio = RDiv(m[1], m[2])
               /\ odds_ratio = RDiv(RMul(m[1], RSub(One, m[2])),
                                    RMul(m[2], RSub(One, m[1])))

\* TMLE has been fitted with a nonzero fluctuation on a cohort of two records
\* that differ in the covariate, so the per-record ratios differ from the
\* ratios of the means.
C3_Witness ==
    /\ kind = "tmle" /\ last.op = "fit" /\ err = "ok"
    /\ epsilon # None /\ epsilon # Zero
    /\ \E i, j \in 1..Len(df) : df[i].male # df[j].male
    /\ q_model.bA # 0
    /\ risk_difference # None /\ risk_ratio # None /\ odds_ratio # None
    /\ odds_ratio # risk_ratio


-----------------------------------------------------------------------------
\* Claims about the order of the calls.

\* C4: as long as outcome_model has not been called on a g-formula estimator,
\* fit under any plan fails with ModelNotSpecifiedError, and the estimator has
\* no marginal outcome.
C4_GFormulaFitNeedsModel ==
    (kind = "gformula" /\ q_model = NoModel)
        => /\ marginal_outcome = None
           /\ last.op = "fit" => err = ModelNotSpecifiedError

\* fit under a valid plan has been called before outcome_model.
C4_Witness ==
    /\ kind = "gformula" /\ q_model = NoModel
    /\ last.op = "fit" /\ last.arg = TreatAll
    /\ err = ModelNotSpecifiedError
    /\ marginal_outcome = None

\* C5: a fit of AIPTW or TMLE succeeds exactly when both the exposure model and
\* the outcome model have been fitted at the time of the call; when either is
\* missing it fails with ModelNotSpecifiedError.
C5_DoublyRobustFitNeedsBothModels ==
    (kind \in {"aiptw", "tmle"} /\ last.op = "fit")
        => /\ err = "ok" <=> (q_model # NoModel /\ g_model # NoModel)
           /\ err # "ok" => err = ModelNotSpecifiedError

\* fit has been called with the outcome model fitted and the exposure model
\* missing.
C5_Witness ==
    /\ kind \in {"aiptw", "tmle"} /\ last.op = "fit"
    /\ q_model # NoModel /\ g_model = NoModel
    /\ err = ModelNotSpecifiedError


\* Some estimate is present on the estimator.
AnyResult ==
    \/ marginal_outcome # None
    \/ risk_difference # None
    \/ risk_ratio # None
    \/ odds_ratio # None
    \/ confidence_interval # NoIntervals

\* C6: estimates exist only in state Estimated; a read of a result before the
\* first successful fit fails with ModelNotSpecifiedError and a read succeeds
\* only when the estimates exist; the estimates appear, and the estimator
\* leaves ModelsFit for Estimated, only by a successful fit.
C6_ResultsOnlyAfterFit ==
    [][/\ AnyResult' => EstimatorState' = "Estimated"
       /\ r_read'.status = "ok" => EstimatorState' = "Estimated"
       /\ (r_read' # r_read /\ EstimatorState # "Estimated")
            => r_read'.status = ModelNotSpecifiedError
       /\ (EstimatorState # "Estimated" /\ EstimatorState' = "Estimated")
            => (EstimatorState = "ModelsFit" /\ last'.op = "fit" /\ err' = "ok")
      ]_vars

\* A read failed while the models were fitted and no fit had succeeded, and
\* a fit has since taken the estimator to Estimated.
C6_Witness ==
    /\ r_read.status = ModelNotSpecifiedError
    /\ EstimatorState = "Estimated"
    /\ last.op = "fit" /\ err = "ok"

\* C7: a g-formula fit changes nothing of the estimator but its marginal
\* outcome: the fitted outcome model and the dataset are the same after the
\* call as before it, so a fit under a plan, after any fits before it, sets the
\* marginal outcome a fit under that plan sets as the first call after
\* outcome_model.
C7_FitLeavesModelAndData ==
    [][(kind = "gformula" /\ last'.op = "fit" /\ last' # last)
         => /\ q_model' = q_model
            /\ df' = df
            /\ outcome_type' = outcome_type
            /\ err' = "ok" => marginal_outcome' = MarginalOutcome(q_model', df', last'.arg)
      ]_vars

\* A plan has been fitted after a fit under another plan that left a different
\* marginal outcome with the caller.
C7_Witness ==
    /\ kind = "gformula" /\ last.op = "fit" /\ err = "ok"
    /\ last.arg = TreatNone
    /\ r_read.status = "ok" /\ r_read.value # marginal_outcome
    /\ q_model.bA # 0

\* C8: a successful fit replaces the result of the fit before it: after fit
\* under plan r1 and then under plan r2 the marginal outcome is the estimate
\* under r2 alone, and the estimate under r1 remains only in the variable of a
\* caller who read it in between.
C8_FitReplacesResult ==
    [][(kind = "gformula" /\ marginal_outcome # None
            /\ last'.op = "fit" /\ last' # last /\ err' = "ok")
         => /\ marginal_outcome' = GFormulaTable[q_model, df, last'.arg]
            /\ r_read' = r_read
            /\ marginal_outcome' # marginal_outcome
                 => (r_read'.value = marginal_outcome
                        <=> (r_read.status = "ok" /\ r_read.value = marginal_outcome))
      ]_vars

\* The caller read the estimate of the women-only plan, and a fit under the
\* treat-all plan has replaced it on the estimator by a different one.
C8_Witness ==
    /\ kind = "gformula" /\ last.op = "fit" /\ err = "ok"
    /\ last.arg = TreatAll
    /\ r_read.status = "ok"
    /\ r_read.value = GFormulaTable[q_model, df, TreatWomen]
    /\ marginal_outcome = GFormulaTable[q_model, df, TreatAll]
    /\ r_read.value # marginal_outcome

\* C9: fit is idempotent: a fit that repeats a successful fit, with the same
\* dataset, models and plan, succeeds and leaves every estimate as it was.
C9_FitIdempotent ==
    [][(last.op = "fit" /\ err = "ok" /\ last'.op = "fit" /\ last'.arg = last.arg
            /\ last' # last)
         => /\ err' = "ok"
            /\ Results' = Results
            /\ epsilon' = epsilon
      ]_vars

\* A successful fit has been repeated.
C9_Witness ==
    /\ last.op = "fit" /\ last.again /\ err = "ok"
    /\ HasResults
    /\ kind = "gformula" => (last.arg = TreatWomen /\ q_model.bA # 0)


\* The estimates on the estimator are those of one successful fit, all of them:
\* for some fitted models (those of the fit), every result attribute of the
\* estimator's kind holds the value that fit computes.
CompleteEstimates ==
    CASE kind = "gformula" ->
            \E m \in AllOutcomeFits(Family(outcome_type)) :
                \E t \in Treatments :
                    /\ ValidTreatment(t, df)
                    /\ marginal_outcome = GFormulaTable[m, df, t]
      [] kind = "aiptw" ->
            \E qm \in AllOutcomeFits("binomial") : \E gm \in AllExposureFits :
                /\ risk_difference = AIPTWTable[qm, gm, df].risk_difference
                /\ risk_ratio = AIPTWTable[qm, gm, df].risk_ratio
                /\ confidence_interval = AIPTWTable[qm, gm, df].confidence_interval
      [] kind = "tmle" ->
            \E qm \in TMLEOutcomeFits : \E gm \in TMLEExposureFits :
                /\ epsilon = TMLETable[qm, gm, df].epsilon
                /\ risk_difference = TMLETable[qm, gm, df].risk_difference
                /\ risk_ratio = TMLETable[qm, gm, df].risk_ratio
                /\ odds_ratio = TMLETable[qm, gm, df].odds_ratio
                /\ confidence_interval = TMLETable[qm, gm, df].confidence_interval

-----------------------------------------------------------------------------
\* Claims about the inputs of the regressions.

\* The columns a regression call names: the left-hand side given to the
\* constructor and the terms of the formula string.
NamedColumns(lhs, formula) ==
    {lhs} \cup (CASE formula = "art + male" -> {"art", "male"}
                  [] formula = "male" -> {"male"}
                  [] OTHER -> {})

\* Some record lacks a value in a column the last regression call names.
LastCallMissesData ==
    \E i \in 1..Len(df) :
        \E c \in NamedColumns(IF last.op = "exposure_model" THEN "art"
                              ELSE IF outcome_type = "binary" THEN "dead"
                              ELSE "cd4_wk45", last.arg) :
            df[i][c] = NaN

\* C11: outcome_model and exposure_model fail with MissingDataError exactly
\* when some record has a missing value in a column the call refers to (the
\* treatment or outcome on its left-hand side, or a term of its formula);
\* missing values in other columns do not matter, and a call that raises the
\* error stores no model: a stored model was fitted on complete columns.
C11_MissingDataError ==
    /\ last.op \in {"outcome_model", "exposure_model"}
         => /\ err = MissingDataError <=> LastCallMissesData
            /\ err # MissingDataError => err = "ok"
    /\ (last.op = "outcome_model" /\ err = MissingDataError) => q_model = NoModel
    /\ (last.op = "exposure_model" /\ err = MissingDataError)
         => (g_model = NoModel \/ Formula(g_model.terms) # last.arg)
    /\ (last.op = "outcome_model" /\ err = "ok")
         => (q_model # NoModel /\ Formula(q_model.terms) = last.arg)

\* An exposure model on male has been refused for a record that misses male;
\* an exposure model without covariates had been stored before, although
\* records miss male and cd4_wk45, and it is still the stored one.
C11_Witness ==
    /\ last.op = "exposure_model" /\ last.arg = "male"
    /\ err = MissingDataError
    /\ \E i, j \in 1..Len(df) : df[i].male = NaN /\ df[j].cd4_wk45 = NaN
    /\ g_model # NoModel /\ g_model.terms = {}


\* The plan of the last fit names a column the dataset does not have, or gives
\* some record a value other than 0 and 1.
LastPlanInvalid ==
    \/ last.arg = "g['sex'] == 0"
    \/ last.arg = "g['male'] + 1" /\ \E i \in 1..Len(df) : df[i].male + 1 \notin {0, 1}

\* C12: a g-formula fit (on a fitted outcome model) under a custom plan that
\* refers to a column the dataset does not have, or that gives some record a
\* value outside {0, 1}, fails with InvalidTreatmentRuleError, and the call
\* produces no marginal outcome: the estimator has none, or that of a valid
\* plan.
C12_InvalidTreatmentRule ==
    (kind = "gformula" /\ last.op = "fit" /\ q_model # NoModel /\ LastPlanInvalid)
        => /\ err = InvalidTreatmentRuleError
           /\ \/ marginal_outcome = None
              \/ \E m \in AllOutcomeFits(Family(outcome_type)) :
                    \E t \in {"all", "none", "g['male'] == 0"} :
                        marginal_outcome = GFormulaTable[m, df, t]

\* The first fit on an outcome model used a plan that is not binary for a man
\* of the dataset, and was refused.
C12_Witness ==
    /\ kind = "gformula" /\ last.op = "fit"
    /\ last.arg = TreatNonBinary
    /\ q_model # NoModel /\ q_model.bA # 0
    /\ \E i, j \in 1..Len(df) : df[i].male = 1 /\ df[j].male = 0
    /\ err = InvalidTreatmentRuleError
    /\ marginal_outcome = None


\* lo <= x <= hi.
Within(x, lo, hi) == RLeq(lo, x) /\ RLeq(x, hi)

\* C13: with bound = [lo, hi] given to exposure_model, every propensity that
\* the computations after it use lies in [lo, hi], for every record: the
\* probability of treatment in the AIPTW weights (and that of no treatment in
\* [1 - hi, 1 - lo]) and the one inside the clever covariates, so that
\* 1/hi <= H1 <= 1/lo and -1/(1 - hi) <= H0 <= -1/(1 - lo), and H is H1 for a
\* treated record and H0 for an untreated one.  With bound = [0.01, 0.99] no
\* propensity in use is below 0.01 or above 0.99.
C13_PropensityBounded ==
    (g_model # NoModel /\ g_model.bound # <<>>)
        => LET lo == g_model.bound[1]
               hi == g_model.bound[2]
           IN  \A i \in 1..Len(df) :
                  /\ Within(PrA(g_model, df[i], 1), lo, hi)
                  /\ Within(PrA(g_model, df[i], 0), RSub(One, hi), RSub(One, lo))
                  /\ Within(CleverH1(g_model, df[i]), RDiv(One, hi), RDiv(One, lo))
                  /\ Within(CleverH0(g_model, df[i]),
                            RDiv(RInt(-1), RSub(One, hi)), RDiv(RInt(-1), RSub(One, lo)))
                  /\ CleverH(g_model, df[i]) =
                        IF df[i].art = 1 THEN CleverH1(g_model, df[i])
                        ELSE CleverH0(g_model, df[i])

\* TMLE has been fitted with an exposure model that predicts 1/5 for women and
\* 4/5 for men, bounded to [1/3, 2/3], on a cohort with a woman and a man.
C13_Witness ==
    /\ kind = "tmle" /\ last.op = "fit" /\ err = "ok"
    /\ g_model.bound = <<<<1, 3>>, <<2, 3>>>>
    /\ g_model.b0 = -2
    /\ \E i, j \in 1..Len(df) : df[i].male = 0 /\ df[j].male = 1
    /\ risk_difference # None


\* C14: every outcome model that a fit of AIPTW or TMLE uses has the treatment
\* among its predictors next to the covariates, its predictions under
\* treatment 1 and 0 coming from a change of that predictor.
C14_OutcomeModelHasTreatment ==
    (kind \in {"aiptw", "tmle"} /\ last.op = "fit" /\ err = "ok")
        => "art" \in q_model.terms

\* The influence curve of the risk difference held by the estimator, record
\* by record: DR_1_i - DR_0_i - RD.
InfluenceOfRecord(i) ==
    RSub(RSub(DRByCase(q_model, g_model, df[i], 1),
              DRByCase(q_model, g_model, df[i], 0)),
         risk_difference)

\* The square of the sample standard deviation of a column by the sums of its
\* entries and of their squares: (sum x^2 - (sum x)^2 / n) / (n - 1).
VarianceBySums(col, n) ==
    RDiv(RSub(RSum(Column([i \in 1..n |-> RMul(col[i], col[i])], n), n),
              RDiv(RMul(RSum(col, n), RSum(col, n)), RInt(n))),
         RInt(n - 1))

\* C15: after a successful AIPTW fit the result holds the interval
\* RD +/- 1.96 SE, where SE is the sample standard deviation of the influence
\* curve DR_1_i - DR_0_i - RD divided by sqrt(n) (stated on the squares:
\* SE^2 = S^2 / n, for the two records or more that a sample standard
\* deviation needs), and it holds no interval for the risk ratio.
C15_AIPTWConfidenceInterval ==
    (kind = "aiptw" /\ last.op = "fit" /\ err = "ok")
        => LET n == Len(df)
               ci == confidence_interval.risk_difference
               ic == Column([i \in 1..n |-> InfluenceOfRecord(i)], n)
           IN  /\ confidence_interval.risk_ratio = None
               /\ ci[1] = risk_difference
               /\ ci[2][1] * 100 = 196 * ci[2][2]
               /\ n >= 2 => ci[3] = RDiv(VarianceBySums(ic, n), RInt(n))

\* AIPTW has been fitted on two records whose influence-curve values differ:
\* the interval of the risk difference has a positive width, and the risk
\* ratio, a finite number, has no interval.
C15_Witness ==
    /\ kind = "aiptw" /\ last.op = "fit" /\ err = "ok"
    /\ Len(df) = 2
    /\ InfluenceOfRecord(1) # InfluenceOfRecord(2)
    /\ RLess(Zero, confidence_interval.risk_difference[3])
    /\ risk_ratio[2] # 0
    /\ confidence_interval.risk_ratio = None

\* The two pairs of models predict alike on the records of the dataset:
\* Q0(A,L), Q0(1,L), Q0(0,L) and the propensity g(L) of every record.
SamePredictions(qm1, gm1, qm2, gm2, data) ==
    \A i \in 1..Len(data) :
        /\ \A a \in {data[i].art, 1, 0} :
               Predict(qm1, a, data[i].male) = Predict(qm2, a, data[i].male)
        /\ Propensity(gm1, data[i]) = Propensity(gm2, data[i])

\* C16: the targeting step of TMLE sees the predictors through their
\* predictions only: whenever the models of a fitted TMLE, user-specified or
\* not, predict on every record as a pair of built-in regressions does, the
\* fluctuation parameter, risk difference, risk ratio and odds ratio are those
\* of the fit with that pair.
C16_PredictionsOnly ==
    (kind = "tmle" /\ last.op = "fit" /\ err = "ok")
        => \A qm \in AllOutcomeFits("binomial") : \A gm \in RepresentableFits :
               SamePredictions(q_model, g_model, qm, gm, df)
                   => LET est == TMLETable[qm, gm, df]
                      IN  /\ epsilon = est.epsilon
                          /\ risk_difference = est.risk_difference
                          /\ risk_ratio = est.risk_ratio
                          /\ odds_ratio = est.odds_ratio

\* TMLE has been fitted with user-specified predictors for both models, on
\* records on which they predict as a pair of built-in regressions does
\* although the outcome predictor differs from that regression elsewhere, and
\* the fluctuation parameter is not zero.
C16_Witness ==
    /\ kind = "tmle" /\ last.op = "fit" /\ err = "ok"
    /\ q_model.family = "custom" /\ g_model.family = "custom"
    /\ epsilon # Zero
    /\ \E qm \in AllOutcomeFits("binomial") : \E gm \in RepresentableFits :
           /\ SamePredictions(q_model, g_model, qm, gm, df)
           /\ \E a, l \in {0, 1} : Predict(q_model, a, l) # Predict(qm, a, l)

\* What a regression call leaves unchanged: the dataset, the other model and
\* every estimate.
RegressionFrame(other) ==
    /\ other' = other
    /\ df' = df /\ kind' = kind /\ outcome_type' = outcome_type
    /\ Results' = Results /\ epsilon' = epsilon

\* C17: what outcome_model and exposure_model do to the estimator does not
\* depend on print_results: with either value of the flag the call raises the
\* same error or stores a model out of the same fits of the same formula on the
\* same data, and it changes no estimate; the flag decides only whether the
\* results of the regression are printed.
C17_PrintResultsOnlyPrints ==
    [][/\ (last'.op = "outcome_model" /\ r_read' = r_read)
          => \A spec \in {x \in OutcomeSpecs : Formula(x) = last'.arg} :
             \A flag \in BOOLEAN :
                 OutcomeModel(spec, flag)
                     => /\ err' = (IF HasMissing(df, NamedColumns(Outcome(outcome_type),
                                                                  Formula(spec)))
                                   THEN MissingDataError ELSE "ok")
                        /\ q_model' \in (IF err' = "ok"
                                         THEN OutcomeFits(spec, Family(outcome_type))
                                         ELSE {q_model})
                        /\ RegressionFrame(g_model)
                        /\ printed' = "regression" <=> (flag /\ err' = "ok")
                        /\ printed' # "regression" => printed' = ""
       /\ (last'.op = "exposure_model" /\ r_read' = r_read)
          => \A spec \in {x \in ExposureSpecs : Formula(x) = last'.arg} :
             \A flag \in BOOLEAN :
                 ExposureModel(spec, NoBound, flag)
                     => /\ err' = (IF HasMissing(df, NamedColumns("art", Formula(spec)))
                                   THEN MissingDataError ELSE "ok")
                        /\ g_model' \in (IF err' = "ok" THEN ExposureFits(spec, NoBound)
                                         ELSE {g_model})
                        /\ RegressionFrame(q_model)
                        /\ printed' = "regression" <=> (flag /\ err' = "ok")
                        /\ printed' # "regression" => printed' = ""
      ]_vars

\* An AIPTW estimator has stored an outcome model from a call that printed and
\* then an exposure model from a call with print_results=False, which printed
\* nothing.
C17_Witness ==
    /\ kind = "aiptw"
    /\ last.op = "exposure_model" /\ err = "ok" /\ printed = ""
    /\ g_model # NoModel /\ g_model.bL # 0
    /\ q_model # NoModel

\* C18: no operation of an estimator (outcome_model, exposure_model, fit under
\* any plan, a read of the results, the summary) changes the dataset the
\* estimator was constructed on: it has the same records with the same values
\* after every step, the treatment column included.
C18_DatasetUnchanged == [][df' = df]_vars

\* AIPTW has been fitted, after its estimates had been printed once, on a
\* dataset with a treated and an untreated record, whose treatment fit sets
\* to 1 and to 0 for its predictions.
C18_Witness ==
    /\ kind = "aiptw" /\ last.op = "fit" /\ err = "ok"
    /\ r_read.status = "ok"
    /\ \E i, j \in 1..Len(df) : df[i].art = 1 /\ df[j].art = 0

\* The values a fitted outcome model predicts, over both treatments and both
\* values of the covariate.
Predictions(m) == {Predict(m, a, l) : a \in {0, 1}, l \in {0, 1}}

\* C19: the marginal outcome of the g-formula lies within the convex hull of
\* the possible outcome values: between 0 and 1 when the outcome model is
\* binomial, not below 0 when it is Poisson, and for every family between two
\* values that one fitted outcome model predicts.
C19_MarginalOutcomeInHull ==
    (kind = "gformula" /\ marginal_outcome # None)
        => /\ Family(outcome_type) = "binomial"
                => RLeq(Zero, marginal_outcome) /\ RLeq(marginal_outcome, One)
           /\ Family(outcome_type) = "poisson" => RLeq(Zero, marginal_outcome)
           /\ \E m \in AllOutcomeFits(Family(outcome_type)) :
                  \E low, high \in Predictions(m) :
                      RLeq(low, marginal_outcome) /\ RLeq(marginal_outcome, high)

\* A g-formula with a binomial outcome model has been fitted on two records
\* whose predictions add up to more than 1 and differ from each other: the
\* marginal outcome is strictly between two predictions.
C19_Witness ==
    /\ kind = "gformula" /\ outcome_type = "binary"
    /\ last.op = "fit" /\ err = "ok"
    /\ Len(df) = 2
    /\ RLess(One, RMul(RInt(2), marginal_outcome))
    /\ marginal_outcome \notin Predictions(q_model)


-----------------------------------------------------------------------------
\* Claims about the steps of TMLE.

\* The intermediate results present are those of the steps done, and the
\* fluctuation parameter is the coefficient of the regression of Y on H with
\* the offset logit(Q0(A,L)).
StepsDone ==
    /\ progress.step \in 0..4
    /\ progress.Q0 # None <=> progress.step >= 1
    /\ progress.g # None <=> progress.step >= 2
    /\ progress.H # None <=> progress.step >= 3
    /\ progress.eps # None <=> progress.step >= 4
    /\ progress.step >= 1 => (q_model # NoModel /\ g_model # NoModel)
    /\ progress.step >= 4
         => progress.eps = RInt(FitFluctuation(q_model, g_model, df))

\* C22: fit() of TMLE runs its five steps in order: Q0 and the propensities
\* first, the clever covariates from the propensities, then, once, the
\* fluctuation parameter by the regression of the observed outcome on H alone
\* with logit(Q0(A,L)) as offset, and only then the targeted predictions and
\* the estimates; no estimate changes or appears before the fifth step ends.
C22_FiveStepsInOrder ==
    /\ []StepsDone
    /\ [][/\ progress'.step # progress.step
               => progress'.step = (progress.step + 1) % 5
          /\ (progress.eps # None /\ progress'.step # 0)
               => progress'.eps = progress.eps
          /\ (Results' # Results \/ epsilon' # epsilon)
               => (progress.step = 4 /\ progress'.step = 0)
          /\ (progress.step = 4 /\ progress'.step = 0)
               => LET est == TMLETable[q_model, g_model, df]
                  IN  /\ epsilon' = est.epsilon
                      /\ risk_difference' = est.risk_difference
                      /\ risk_ratio' = est.risk_ratio
                      /\ odds_ratio' = est.odds_ratio
                      /\ confidence_interval' = est.confidence_interval
         ]_vars

\* The first fit of an estimator has estimated a fluctuation parameter other
\* than zero and has not reached its fifth step: there is no estimate yet.
C22_Witness ==
    /\ progress.step = 4
    /\ progress.eps # Zero
    /\ q_model.bA # 0
    /\ Results = NoResults /\ epsilon = None

\* C23: for every record, with g the record's propensity after bounding, the
\* clever covariate is H = I(A=1)/g - I(A=0)/(1-g) and the treatment-specific
\* ones are H1 = 1/g and H0 = -1/(1-g) (H1 g = 1 and H0 (1-g) = -1); H is H1 on
\* a treated record and H0 on an untreated one.
C23_CleverCovariates ==
    progress.H # None
        => \A i \in 1..Len(df) :
              LET g == Bounded(OddsToProb(Pow2(g_model.b0 + g_model.bL * df[i].male)),
                               g_model.bound)
              IN  /\ progress.g[i] = g
                  /\ RMul(progress.H.H1[i], g) = One
                  /\ RMul(progress.H.H0[i], RSub(One, g)) = RInt(-1)
                  /\ progress.H.H[i] =
                        RSub(RDiv(Ind(df[i].art = 1), g),
                             RDiv(Ind(df[i].art = 0), RSub(One, g)))
                  /\ progress.H.H[i] = IF df[i].art = 1 THEN progress.H.H1[i]
                                       ELSE progress.H.H0[i]

\* The clever covariates have been computed for a treated woman and an
\* untreated man whose predicted propensities, 1/5 and 4/5, were bounded to
\* 1/3 and 2/3: H is 3 for her and -3 for him.
C23_Witness ==
    /\ progress.H # None
    /\ g_model.b0 = -2 /\ g_model.bound = <<<<1, 3>>, <<2, 3>>>>
    /\ \E i, j \in 1..Len(df) :
          /\ df[i].art = 1 /\ df[i].male = 0 /\ progress.H.H[i] = RInt(3)
          /\ df[j].art = 0 /\ df[j].male = 1 /\ progress.H.H[j] = RInt(-3)


-----------------------------------------------------------------------------
\* Claims about several estimators.

\* The estimates of an instance are those of its own fitted models on its own
\* dataset.
OwnEstimates(i) ==
    (i.last.op = "fit" /\ i.err = "ok")
        => IF i.kind = "gformula"
           THEN i.marginal_outcome = GFormulaTable[i.q_model, i.df, i.last.arg]
           ELSE LET est == AIPTWTable[i.q_model, i.g_model, i.df]
                IN  /\ i.risk_difference = est.risk_difference
                    /\ i.risk_ratio = est.risk_ratio
                    /\ i.confidence_interval = est.confidence_interval

\* C24: the repetitions of a bootstrap are independent: however the steps of
\* two repetitions are interleaved, the estimates of each are those of its own
\* models on its own resample; a call on one estimator changes nothing of the
\* other, no step changes the resample of an estimator, and none changes the
\* source dataset.
C24_RepetitionsIndependent ==
    /\ [](OwnEstimates(Instance) /\ OwnEstimates(shelf.instance))
    /\ [][/\ shelf'.source = shelf.source
          /\ \/ shelf'.instance = shelf.instance /\ df' = df
             \/ shelf'.instance = Instance /\ Instance' = shelf.instance
         ]_vars

\* Both repetitions have fitted, on different resamples and with different
\* outcome models, the second one after the first had read its estimate, and
\* their estimates differ.
C24_Witness ==
    /\ kind = "gformula" /\ last.op = "fit" /\ last.arg = TreatNone /\ err = "ok"
    /\ shelf.instance.last.op = "fit" /\ shelf.instance.r_read.status = "ok"
    /\ shelf.instance.df # df
    /\ shelf.instance.q_model # q_model
    /\ shelf.instance.marginal_outcome # marginal_outcome


\* C25: for AIPTW with propensities strictly between 0 and 1, if the outcome
\* model reproduces the observed outcome of every record, then mean(DR_1) and
\* mean(DR_0) are the g-formula means of Yhat(1,L) and Yhat(0,L) over all
\* records, whatever the propensities: the risk difference and risk ratio of
\* the fit are the difference and the ratio of the g-formula means.
C25_OutcomeModelHalf ==
    (/\ kind = "aiptw" /\ last.op = "fit" /\ err = "ok"
     /\ \A i \in 1..Len(df) :
            /\ Predict(q_model, df[i].art, df[i].male) = RInt(df[i].dead)
            /\ RLess(Zero, Propensity(g_model, df[i]))
            /\ RLess(Propensity(g_model, df[i]), One))
        => /\ AIPTWMean(q_model, g_model, df, 1) = MarginalOutcome(q_model, df, TreatAll)
           /\ AIPTWMean(q_model, g_model, df, 0) = MarginalOutcome(q_model, df, TreatNone)
           /\ risk_difference = RSub(MarginalOutcome(q_model, df, TreatAll),
                                     MarginalOutcome(q_model, df, TreatNone))
           /\ risk_ratio = RDiv(MarginalOutcome(q_model, df, TreatAll),
                                MarginalOutcome(q_model, df, TreatNone))


\* 0 < x < 1.
Inside(x) == RLess(Zero, x) /\ RLess(x, One)

C27_OrderIrrelevant ==
    /\ [](kind \in {"aiptw", "tmle"} /\ df \in CompleteCases /\ ~HasResults
              /\ r_read.status = "unread" /\ last.op # "fit" =>
            /\ \A spec \in OutcomeSpecs : \A m \in OutcomeFits(spec, "binomial") :
                   ENABLED (OutcomeModel(spec, TRUE) /\ q_model' = m /\ Alone)
            /\ \A c \in ExposureCalls : \A m \in ExposureFits(c[1], c[2]) :
                   (kind = "tmle" => Representable(m))
                       => ENABLED (ExposureModel(c[1], c[2], TRUE) /\ g_model' = m /\ Alone))
    /\ [][/\ kind \in {"aiptw", "tmle"} =>
                /\ (last'.op = "outcome_model" /\ err' = "ok") =>
                       /\ g_model' = g_model
                       /\ \E spec \in OutcomeSpecs :
                              /\ last'.arg = Formula(spec)
                              /\ q_model' \in OutcomeFits(spec, "binomial")
                                     \cup (IF kind = "tmle" THEN CustomOutcomeFits(spec) ELSE {})
                /\ (last'.op = "exposure_model" /\ err' = "ok") =>
                       /\ q_model' = q_model
                       /\ \E c \in ExposureCalls :
                              /\ last'.arg = Formula(c[1])
                              /\ g_model' \in ExposureFits(c[1], c[2])
                                     \cup (IF kind = "tmle" THEN CustomExposureFits(c[1]) ELSE {})
                /\ last'.op = "fit" =>
                       /\ q_model' = q_model
                       /\ g_model' = g_model
                       /\ err' = "ok" <=> (q_model # NoModel /\ g_model # NoModel)
                       /\ (err' = "ok" /\ kind = "aiptw") =>
                              LET est == AIPTWTable[q_model, g_model, df]
                              IN  /\ risk_difference' = est.risk_difference
                                  /\ risk_ratio' = est.risk_ratio
                                  /\ confidence_interval' = est.confidence_interval
                       /\ (err' = "ok" /\ kind = "tmle") =>
                              LET est == TMLETable[q_model, g_model, df]
                              IN  /\ epsilon' = est.epsilon
                                  /\ risk_difference' = est.risk_difference
                                  /\ risk_ratio' = est.risk_ratio
                                  /\ odds_ratio' = est.odds_ratio
                                  /\ confidence_interval' = est.confidence_interval
         ]_vars

\* A fit has succeeded on an estimator whose models were given in either
\* order.
C27_Witness ==
    /\ kind \in {"aiptw", "tmle"}
    /\ last.op = "fit"
    /\ err = "ok"
    /\ q_model.terms = {"art", "male"}
    /\ g_model.terms = {"male"}


\* C28: whenever an estimator is in state Estimated, the estimates it exposes
\* are those computed from the models it stores now: the marginal outcome is
\* that of the stored outcome model under some valid plan, the AIPTW and TMLE
\* estimates are those of the two stored models, on the estimator's dataset.
C28_EstimatesAreCurrent ==
    EstimatorState = "Estimated" =>
        CASE kind = "gformula" ->
                 \E t \in Treatments :
                     /\ ValidTreatment(t, df)
                     /\ marginal_outcome = GFormulaTable[q_model, df, t]
          [] kind = "aiptw" ->
                 LET est == AIPTWTable[q_model, g_model, df]
                 IN  /\ risk_difference = est.risk_difference
                     /\ risk_ratio = est.risk_ratio
                     /\ confidence_interval = est.confidence_interval
          [] kind = "tmle" ->
                 LET est == TMLETable[q_model, g_model, df]
                 IN  /\ epsilon = est.epsilon
                     /\ risk_difference = est.risk_difference
                     /\ risk_ratio = est.risk_ratio
                     /\ odds_ratio = est.odds_ratio
                     /\ confidence_interval = est.confidence_interval


\* C29: for a g-formula with a gaussian outcome model that has the treatment
\* as a term, the marginal outcome under 'all' minus the marginal outcome
\* under 'none' is the fitted treatment coefficient: after a successful fit
\* under either plan, the attribute and the marginal outcome of the same
\* model and dataset under the other plan differ by exactly that coefficient.
C29_GaussianContrastIsCoefficient ==
    (/\ kind = "gformula"
     /\ q_model.family = "gaussian"
     /\ "art" \in q_model.terms
     /\ last.op = "fit"
     /\ err = "ok")
        => /\ last.arg = TreatAll =>
                  RSub(marginal_outcome, MarginalOutcome(q_model, df, TreatNone))
                      = RInt(q_model.bA)
           /\ last.arg = TreatNone =>
                  RSub(MarginalOutcome(q_model, df, TreatAll), marginal_outcome)
                      = RInt(q_model.bA)

\* A gaussian model with the treatment has been fitted on a dataset of men and
\* women, and the marginal outcome under 'none' estimated after that under
\* 'all' was read.
C29_Witness ==
    /\ kind = "gformula"
    /\ q_model.family = "gaussian"
    /\ "art" \in q_model.terms
    /\ \E i, j \in 1..Len(df) : df[i].male # df[j].male
    /\ last = [op |-> "fit", arg |-> TreatNone, again |-> FALSE]
    /\ err = "ok"
    /\ r_read.status = "ok"
    /\ RSub(r_read.value, marginal_outcome) = RInt(q_model.bA)


\* C30: in the notebook run in cell order, every printed risk difference
\* subtracts two marginal outcomes read from the same estimator instance, with
\* the same dataset and the same fitted outcome model.  After the loop the
\* name g is bound to the estimator of the last pass, and r_none, r_women and
\* r_custom, once bound, are results of that estimator as it is.
C30_SameInstance ==
    /\ \A k \in 1..Len(notebook.out) :
           /\ notebook.out[k].left.g = notebook.out[k].right.g
           /\ notebook.out[k].left.df = notebook.out[k].right.df
           /\ notebook.out[k].left.q_model = notebook.out[k].right.q_model
    /\ notebook.cell >= 13 =>
           /\ notebook.g = LoopPasses
           /\ \A name \in {"r_none", "r_women", "r_custom"} :
                  notebook[name] # None =>
                      /\ notebook[name].g = notebook.g
                      /\ notebook[name].df = df
                      /\ notebook[name].q_model = q_model
           /\ notebook.r_none.value = GFormulaTable[q_model, df, TreatNone]
           /\ notebook.r_women # None =>
                  notebook.r_women.value = GFormulaTable[q_model, df, TreatWomen]
           /\ notebook.r_custom # None =>
                  notebook.r_custom.value = GFormulaTable[q_model, df, TreatWomen]

\* The three risk differences have been printed, the loop having drawn in its
\* last pass a resample other than dfs and fitted another model on it than
\* was fitted on dfs: the first is of the estimator on dfs, the other two of
\* the estimator on the resample.
C30_Witness ==
    /\ Len(notebook.out) = 3
    /\ notebook.out[1].right.g = 0
    /\ notebook.out[2].right.g = LoopPasses
    /\ notebook.out[1].right.df = notebook.dfs
    /\ notebook.out[2].right.df # notebook.dfs
    /\ notebook.out[2].right.q_model # notebook.out[1].right.q_model
    /\ notebook.out[2].right.value # notebook.out[1].right.value

===========================================================================
